---- MODULE Spec2Model ----
(***************************************************************************)
(* PRISM: parallel batch-processing orchestrator.                          *)
(*                                                                         *)
(* Nine state machines over one set of variables:                          *)
(*   PlanSpec  the orchestrator plans the row ranges of one input file     *)
(*             (Orchestrator.get_row_ranges) and every planned worker      *)
(*             loads its slice (Worker.load_data);                         *)
(*   Spec      the attempts made for one job_id: Worker.run or the         *)
(*             single-process runner drive Processor.process_dataframe,    *)
(*             which writes checkpoint parts through the Serializer; an    *)
(*             attempt may be killed at any point and a new attempt for    *)
(*             the same job_id started;                                    *)
(*   StatusSpec  one worker process from construction to exit: the status  *)
(*             documents it writes to its status file (WorkerStatus,       *)
(*             MonitorBridge), exceptions and interrupts at every step,    *)
(*             and a reader polling the file;                              *)
(*   OrchSpec  the invocations of the orchestrator on one run_id (normal   *)
(*             run, detach, retry, --resume) with the worker processes     *)
(*             they spawn, the run manifest, and the status, checkpoint    *)
(*             and output directories of the run;                          *)
(*   RunSpec   one call of Orchestrator.run over the input queue, for the  *)
(*             merge conditions and retry options of the configuration,    *)
(*             with up to MaxRunFailures failing workers and the           *)
(*             operator's answers to the failure prompt;                   *)
(*   LiveSpec  OrchSpec with weak fairness for the steps of the worker     *)
(*             processes and of the orchestrator;                          *)
(*   MainSpec  one invocation of main (O_orchestrator.py) from the         *)
(*             command line: the run_id it scopes to and the branch it     *)
(*             takes, over the run directories earlier runs left;          *)
(*   EngineSpec  Processor.process_dataframe over the rows of one job:     *)
(*             the pause probe, the model's responses, retries, the        *)
(*             per-row fallback and validation;                            *)
(*   MergeSpec  Serializer.merge_checkpoints over part files with part     *)
(*             numbers of four and of five digits.                         *)
(***************************************************************************)
EXTENDS Integers, Sequences, FiniteSets, TLC

\* ------------------------------------------------------------------ bounds
\* RowIDs of the input file are drawn from 1..MaxRowID
MaxRowID == 4
\* parallelization.workers is drawn from 1..MaxWorkers
MaxWorkers == 3
\* batch sizes are drawn from 1..MaxBatch
MaxBatch == 3
\* checkpoint intervals are drawn from 1..MaxInterval
MaxInterval == 3
\* number of attempts (worker processes / runner invocations) for one job_id
MaxAttempts == 2
\* the input queue of a run holds 1..MaxQueue files
MaxQueue == 2
\* each file of the queue holds 1..MaxFileRows rows
MaxFileRows == 2
\* parallelization.workers of a run is drawn from 1..MaxSpawn
MaxSpawn == 2
\* model.batch_size of a run is drawn from 1..MaxRunBatch
MaxRunBatch == 1
\* output.checkpoints.interval of a run is drawn from 1..MaxRunInterval
MaxRunInterval == 1
\* orchestrator invocations on one run_id
MaxInvocations == 2
\* worker processes spawned on one run_id
MaxProcesses == 4
\* worker processes killed from outside
MaxKills == 1
\* worker processes that end in an exception
MaxFailures == 1
\* worker processes spawned by one call of Orchestrator.run
MaxRunProcesses == 6
\* worker processes that end in an exception during one call of run
MaxRunFailures == 2
\* error_handling.max_worker_retries is drawn from 0..MaxRetries
MaxRetries == 0
\* rows of all files in the input queue of one call of run
MaxRunRows == 3
\* earlier runs of the project were started at the seconds 1..MaxEarlier
MaxEarlier == 2
\* an earlier run left the status files of workers in 1..MaxMonitored
MaxMonitored == 2
\* an invocation of main is followed until the second MaxClock
MaxClock == 4
\* process_dataframe is given 1..MaxEngineRows rows
MaxEngineRows == 3
\* model.batch_size is drawn from 1..MaxEngineBatch
MaxEngineBatch == 2
\* Processor.retries is drawn from 0..MaxTries
MaxTries == 2
\* the first part number that format 04d writes with five digits
WidePart == 10000

VARIABLES
    input_file,        \* the input CSV: its RowID column, in file order
    has_rowid,         \* TRUE iff the CSV has a RowID column
    parallelization,   \* config['parallelization']
    row_ranges,        \* the ranges planned for the file
    plan_pc,           \* "start" | "planned"
    loaded,            \* worker_id -> the slice that worker loaded, or NotLoaded
    program,           \* "worker" (W_worker.py) | "runner" (runner.py) | "none"
    row_start,         \* the range of the job_id
    row_end,
    attempt,           \* number of attempts started so far for the job_id
    pc,                \* position of the current attempt
    df,                \* the slice handed to process_dataframe
    batch_size,        \* batch size of the current attempt
    checkpoint_interval, \* Serializer.checkpoint_interval of the current attempt
    results,           \* process_dataframe: rows processed so far (in order)
    last_checkpoint_row, \* process_dataframe local
    checkpoint_counter,  \* process_dataframe local
    disk,              \* checkpoint directory of the job_id: part -> content
    submitted,         \* part -> rows handed to the latest save_checkpoint of it
    saves,             \* save_checkpoint calls of the current attempt, in order
    disk_at_start,     \* the checkpoint directory when the current attempt started
    ever_saved,        \* RowIDs handed to save_checkpoint over all attempts
    output,            \* the merged per-range output file, or NoFile
    worker_config,     \* Worker.config of one worker process, with len(df)
    run_pc,            \* position of that process in Worker.run
    save_pc,           \* "open" while WorkerStatus.save holds the file open
    worker_status,     \* WorkerStatus.status, the dict in memory
    status_file,       \* worker_<id>.json on disk
    documents,         \* the documents completely written, in order
    proc,              \* locals of process_dataframe in that process
    monitor_started,   \* TRUE iff Monitor.start_time is set
    raised,            \* TRUE iff an exception was raised in the try of Worker.run
    interrupted,       \* TRUE iff the process got a KeyboardInterrupt
    exit_code,         \* exit code of the process, Unset while it runs
    last_read,         \* what the latest read_worker_status obtained
    input_queue,       \* config['input_queue'] with the files it names
    config,            \* the configuration of the run (the manifest's config_snapshot)
    orch,              \* the orchestrator process, or mode "none"
    invocations,       \* orchestrator invocations made on the run_id so far
    run_manifest,      \* the "files" list of run_manifest.json
    processes,         \* the worker processes spawned so far, in spawn order
    status_dir,        \* worker_id -> worker_<id>.json of the run
    checkpoint_dir,    \* job_id -> part -> content, for the run
    output_dir,        \* output name -> content, for the run
    kills,             \* worker processes killed so far
    failures,          \* worker processes that ended in an exception so far
    clock,             \* the wall clock, in seconds
    run_dirs,          \* run_id -> the run's directories: status files, manifest
    pause_flags,       \* the run_ids whose status directory holds pause.flag
    cli,               \* one invocation of main: its arguments and its orchestrator
    engine             \* one call of Processor.process_dataframe: its locals

planVars == <<parallelization, row_ranges, plan_pc, loaded>>
jobVars == <<program, row_start, row_end, attempt, pc, df, batch_size,
             checkpoint_interval, results, last_checkpoint_row,
             checkpoint_counter, disk, submitted, saves, disk_at_start,
             ever_saved, output>>
statusVars == <<worker_config, run_pc, save_pc, worker_status, status_file,
                documents, proc, monitor_started, raised, interrupted,
                exit_code, last_read>>
orchVars == <<input_queue, config, orch, invocations, run_manifest, processes,
              status_dir, checkpoint_dir, output_dir, kills, failures>>
cliVars == <<clock, run_dirs, pause_flags, cli>>
toolVars == <<cliVars, engine>>
vars == <<input_file, has_rowid, planVars, jobVars, statusVars, orchVars, toolVars>>

\* ------------------------------------------------------------ small helpers
\* a slice not loaded yet; a file that does not exist
NotLoaded == [done |-> FALSE, rows |-> <<>>]

NoFile == [exists |-> FALSE, rows |-> <<>>]

File(rows) == [exists |-> TRUE, rows |-> rows]

Min(a, b) == IF a < b THEN a ELSE b

Max(a, b) == IF a > b THEN a ELSE b

RECURSIVE SortedSeq(_)
\* the elements of a finite set of integers in increasing order
SortedSeq(S) ==
    IF S = {} THEN <<>>
    ELSE LET m == CHOOSE x \in S : \A y \in S : x <= y
         IN  <<m>> \o SortedSeq(S \ {m})

\* input files: unique integer RowIDs, not necessarily 1..N nor gapless
InputFiles == { SortedSeq(S) : S \in SUBSET (1..MaxRowID) }

\* pd.read_csv(input_file): one row per line, the index is the position
read_csv(file) == [ i \in 1..Len(file) |-> [idx |-> i, RowID |-> file[i]] ]

RowIDsOf(rows) == { rows[i].RowID : i \in 1..Len(rows) }

IdxOf(rows) == { rows[i].idx : i \in 1..Len(rows) }

\* ------------------------------------------------------------- planning
RECURSIVE calculate_loop_off_by_one(_, _, _, _, _, _)
calculate_loop_off_by_one(i, num_workers, rows_per_worker, remainder, start, ranges) ==
    IF i >= num_workers THEN ranges
    ELSE LET extra == IF i <= remainder THEN 1 ELSE 0
             end == start + rows_per_worker + extra - 1
         IN  calculate_loop_off_by_one(i + 1, num_workers, rows_per_worker, remainder,
                 end + 1,
                 Append(ranges, [start |-> start, end |-> end, worker_id |-> i + 1]))

RECURSIVE calculate_loop(_, _, _, _, _, _)
\* the for loop of calculate_row_ranges, from iteration i on
calculate_loop(i, num_workers, rows_per_worker, remainder, start, ranges) ==
    IF i >= num_workers THEN ranges
    ELSE LET extra == IF i < remainder THEN 1 ELSE 0
             end == start + rows_per_worker + extra - 1
         IN  calculate_loop(i + 1, num_workers, rows_per_worker, remainder,
                 end + 1,
                 Append(ranges, [start |-> start, end |-> end, worker_id |-> i + 1]))

calculate_row_ranges_skip_empty(total_rows, num_workers) ==
    calculate_loop(0, Min(total_rows, num_workers), total_rows \div num_workers,
                   total_rows % num_workers, 1, <<>>)

calculate_row_ranges_remainder_last(total_rows, num_workers) ==
    LET first == calculate_loop(0, num_workers - (total_rows % num_workers),
                                total_rows \div num_workers, 0, 1, <<>>)
        next_start == IF first = <<>> THEN 1 ELSE first[Len(first)].end + 1
        rest == calculate_loop(0, total_rows % num_workers,
                               (total_rows \div num_workers) + 1, 0, next_start, <<>>)
    IN  first \o [ i \in 1..Len(rest) |->
                     [rest[i] EXCEPT !.worker_id = Len(first) + i] ]

calculate_row_ranges(total_rows, num_workers) ==
    calculate_loop(0, num_workers, total_rows \div num_workers,
                   total_rows % num_workers, 1, <<>>)

\* parallelization.manual_ranges as the operator may configure them
ManualRangeChoices ==
    { << [start |-> 1, end |-> 2], [start |-> 3, end |-> 4] >>,
      << [start |-> 1, end |-> 3], [start |-> 2, end |-> 4] >>,
      << [start |-> 1, end |-> 1], [start |-> 3, end |-> 4] >> }

Parallelizations ==
    [ enabled : BOOLEAN, split_strategy : {"auto", "manual"},
      workers : 1..MaxWorkers, manual_ranges : ManualRangeChoices ]

get_row_ranges(file, par) ==
    IF ~par.enabled
    THEN << [start |-> 1, end |-> Len(file), worker_id |-> 1] >>
    ELSE IF par.split_strategy = "manual"
    THEN [ i \in 1..Len(par.manual_ranges) |->
             [start |-> par.manual_ranges[i].start,
              end |-> par.manual_ranges[i].end, worker_id |-> i] ]
    ELSE calculate_row_ranges(Len(file), par.workers)

\* Worker.load_data: filter by RowID value when the column exists, else the
\* positional slice iloc[row_start-1:row_end] with synthetic RowIDs
load_data(file, hasRowID, rstart, rend) ==
    LET all == read_csv(file)
        in_range(r) == r.RowID >= rstart /\ r.RowID <= rend
    IN  IF hasRowID THEN SelectSeq(all, in_range)
        ELSE [ i \in 1..Max(0, Min(rend, Len(all)) - (rstart - 1)) |->
                 [idx |-> rstart - 1 + i, RowID |-> rstart - 1 + i] ]

JobIdle ==
    /\ program = "none" /\ row_start = 0 /\ row_end = 0 /\ attempt = 0
    /\ pc = "idle" /\ df = <<>> /\ batch_size = 1 /\ checkpoint_interval = 1
    /\ results = <<>> /\ last_checkpoint_row = 0 /\ checkpoint_counter = 0
    /\ disk = <<>> /\ submitted = <<>> /\ saves = <<>> /\ disk_at_start = <<>>
    /\ ever_saved = {} /\ output = NoFile

\* ---------------------------------------- status documents (W_worker.py)
\* exit_code of a process that has not exited
Unset == -1

\* WorkerStatus.__init__: the status dict of a new worker process
InitialStatus ==
    [state |-> "initializing", row_start |-> 0, row_end |-> 0, current_row |-> 0,
     rows_processed |-> 0, total_rows |-> 0, last_error |-> "null",
     output_file |-> "null", checkpoints |-> 0]

\* no document: the content of a file that is missing, empty or cut short
NoDocument == [InitialStatus EXCEPT !.state = "none"]

\* worker_<id>.json does not exist
NoStatusFile == [exists |-> FALSE, complete |-> FALSE, doc |-> NoDocument]

\* open(status_file, 'w') truncated the file and json.dump has not finished
OpenedStatusFile == [exists |-> TRUE, complete |-> FALSE, doc |-> NoDocument]

StatusFile(doc) == [exists |-> TRUE, complete |-> TRUE, doc |-> doc]

NothingRead == [kind |-> "nothing", doc |-> NoDocument]

\* no worker process is modelled
WorkerIdle ==
    /\ worker_config = [batch_size |-> 1, checkpoint_interval |-> 1,
                        row_start |-> 1, row_end |-> 0, total_rows |-> 0]
    /\ run_pc = "none" /\ save_pc = "closed"
    /\ worker_status = NoDocument /\ status_file = NoStatusFile
    /\ documents = <<>>
    /\ proc = [results |-> 0, last_checkpoint_row |-> 0, checkpoint_counter |-> 0]
    /\ monitor_started = FALSE /\ raised = FALSE /\ interrupted = FALSE
    /\ exit_code = Unset /\ last_read = NothingRead

\* no orchestrator run is modelled
NoOrchestrator ==
    [mode |-> "none", pc |-> "none", pos |-> 0, workers |-> {},
     worker_configs |-> <<>>, failed_ranges |-> <<>>, entries |-> <<>>,
     row_ranges |-> <<>>,
     results |-> [successful |-> {}, failed |-> {}, output_files |-> {}]]

OrchIdle ==
    /\ input_queue = <<>> /\ config = <<>> /\ orch = NoOrchestrator
    /\ invocations = 0 /\ run_manifest = <<>> /\ processes = <<>>
    /\ status_dir = <<>> /\ checkpoint_dir = <<>> /\ output_dir = <<>>
    /\ kills = 0 /\ failures = 0

\* --run-id not given ("none" also stands for --version not given)
NoRunId == [version |-> "none", ts |-> 0]

\* no invocation of main is modelled
NoInvocation ==
    [pc |-> "none",
     args |-> [run_id |-> NoRunId, version |-> "none", summary |-> FALSE,
               pause_run |-> FALSE, resume_run |-> FALSE, resume |-> FALSE,
               dry_run |-> FALSE, monitor_only |-> FALSE],
     run_id |-> NoRunId, version |-> "none", scoped |-> {},
     workers |-> {}, outcome |-> "none"]

CliIdle ==
    /\ clock = 0 /\ run_dirs = <<>> /\ pause_flags = {} /\ cli = NoInvocation

\* no call of process_dataframe is modelled
NoEngine ==
    [pc |-> "none", total_rows |-> 0, batch_size |-> 1, retries |-> 0, i |-> 0,
     n |-> 0, attempt |-> 0, row |-> 0, fallback_results |-> <<>>,
     batch_results |-> [is_none |-> FALSE, records |-> <<>>],
     calls |-> <<>>, probed |-> "none"]

ToolIdle == CliIdle /\ engine = NoEngine

PlanInit ==
    /\ input_file \in InputFiles
    /\ has_rowid \in BOOLEAN
    /\ parallelization \in Parallelizations
    /\ row_ranges = <<>>
    /\ plan_pc = "start"
    /\ loaded = <<>>
    /\ JobIdle
    /\ ToolIdle
    /\ WorkerIdle
    /\ OrchIdle

\* Orchestrator.process_file: row_ranges = self.get_row_ranges(input_file)
Plan ==
    /\ plan_pc = "start"
    /\ row_ranges' = get_row_ranges(input_file, parallelization)
    /\ loaded' = [ w \in 1..Len(row_ranges') |-> NotLoaded ]
    /\ plan_pc' = "planned"
    /\ UNCHANGED <<input_file, has_rowid, parallelization, jobVars, statusVars,
                   orchVars, toolVars>>

\* the worker spawned for range w runs Worker.load_data
Load(w) ==
    /\ plan_pc = "planned"
    /\ ~loaded[w].done
    /\ loaded' = [loaded EXCEPT ![w] =
                    [done |-> TRUE,
                     rows |-> load_data(input_file, has_rowid,
                                        row_ranges[w].start, row_ranges[w].end)]]
    /\ UNCHANGED <<input_file, has_rowid, parallelization, row_ranges, plan_pc,
                   jobVars, statusVars, orchVars, toolVars>>

PlanNext ==
    \/ Plan
    \/ \E w \in 1..Len(row_ranges) : Load(w)

PlanSpec == PlanInit /\ [][PlanNext]_vars

\* ------------------------------------------------- claims about planning
AllLoaded == plan_pc = "planned" /\ \A w \in 1..Len(row_ranges) : loaded[w].done

AutoPlanned == plan_pc = "planned" /\ parallelization.enabled
               /\ parallelization.split_strategy = "auto"

RangeSize(r) == r.end - r.start + 1

\* the planned ranges that contain row number n
RangesHolding(n) == { i \in 1..Len(row_ranges) :
                        row_ranges[i].start <= n /\ n <= row_ranges[i].end }

\* C1: for an input file with unique integer RowIDs (not necessarily 1..N),
\* once every planned worker has loaded its slice, every input row was
\* loaded by exactly one worker (ranges planned automatically or with
\* parallelization disabled).
C1_EveryRowLoadedOnce ==
    (AllLoaded /\ has_rowid
       /\ (~parallelization.enabled \/ parallelization.split_strategy = "auto"))
    => \A p \in 1..Len(input_file) :
          Cardinality({ w \in 1..Len(row_ranges) : p \in IdxOf(loaded[w].rows) }) = 1

\* C2: for total_rows >= 1 the ranges of calculate_row_ranges are contiguous
\* and cover [1, total_rows] exactly once: the first starts at 1, each next
\* starts at the previous end + 1, the last ends at total_rows, and every row
\* number of the interval lies in exactly one range (none outside it in any).
C2_ContiguousCover ==
    (AutoPlanned /\ Len(input_file) >= 1)
    => /\ Len(row_ranges) >= 1
       /\ row_ranges[1].start = 1
       /\ \A i \in 2..Len(row_ranges) : row_ranges[i].start = row_ranges[i-1].end + 1
       /\ row_ranges[Len(row_ranges)].end = Len(input_file)
       /\ \A n \in 1..Len(input_file) : Cardinality(RangesHolding(n)) = 1
       /\ \A n \in {0} \cup ((Len(input_file)+1)..(MaxRowID+2)) : RangesHolding(n) = {}

C2_Witness ==
    /\ AutoPlanned /\ Len(input_file) >= 3 /\ parallelization.workers >= 2
    /\ Len(row_ranges) = parallelization.workers

\* C3 (as stated): with total_rows < workers, auto partitioning returns
\* exactly total_rows ranges and none of them is empty (end < start).
C3_OnlyNonEmptyRanges ==
    (AutoPlanned /\ Len(input_file) >= 1 /\ Len(input_file) < parallelization.workers)
    => /\ Len(row_ranges) = Len(input_file)
       /\ \A i \in 1..Len(row_ranges) : row_ranges[i].end >= row_ranges[i].start

\* C3 (amended): with total_rows < workers, auto partitioning returns exactly
\* `workers` ranges; the first total_rows of them hold one row each ([i,i])
\* and every later one is empty, with end = start - 1.
C3_EmptyTailRanges ==
    (AutoPlanned /\ Len(input_file) < parallelization.workers)
    => /\ Len(row_ranges) = parallelization.workers
       /\ \A i \in 1..Len(row_ranges) :
            IF i <= Len(input_file)
            THEN row_ranges[i].start = i /\ row_ranges[i].end = i
            ELSE row_ranges[i].end = row_ranges[i].start - 1

C3_Witness ==
    /\ AutoPlanned /\ Len(input_file) >= 1
    /\ Len(input_file) < parallelization.workers
    /\ \E i \in 1..Len(row_ranges) : row_ranges[i].end < row_ranges[i].start

Ranges_100_3 == calculate_row_ranges(100, 3)

Ranges_10_4 == calculate_row_ranges(10, 4)

\* C4: auto partitioning is maximally balanced: there are `workers` ranges
\* with worker_ids 1..workers in range order, range i has size
\* floor(total/workers) + 1 when i <= total mod workers and floor(total/workers)
\* otherwise; 100 rows/3 workers gives [1,34],[35,67],[68,100] and
\* 10 rows/4 workers gives [1,3],[4,6],[7,8],[9,10].
C4_Balanced ==
    /\ AutoPlanned =>
         LET total == Len(input_file)
             workers == parallelization.workers
         IN  /\ Len(row_ranges) = workers
             /\ \A i \in 1..workers :
                  /\ row_ranges[i].worker_id = i
                  /\ RangeSize(row_ranges[i]) =
                       (total \div workers) + (IF i <= total % workers THEN 1 ELSE 0)
             /\ Cardinality({ i \in 1..workers :
                   RangeSize(row_ranges[i]) = (total \div workers) + 1 }) = total % workers
    /\ plan_pc = "planned" =>
         /\ Ranges_100_3 = << [start |-> 1, end |-> 34, worker_id |-> 1],
                              [start |-> 35, end |-> 67, worker_id |-> 2],
                              [start |-> 68, end |-> 100, worker_id |-> 3] >>
         /\ Ranges_10_4 = << [start |-> 1, end |-> 3, worker_id |-> 1],
                             [start |-> 4, end |-> 6, worker_id |-> 2],
                             [start |-> 7, end |-> 8, worker_id |-> 3],
                             [start |-> 9, end |-> 10, worker_id |-> 4] >>

C4_Witness ==
    /\ AutoPlanned /\ Len(input_file) % parallelization.workers # 0
    /\ Len(input_file) > parallelization.workers
    /\ RangeSize(row_ranges[1]) = RangeSize(row_ranges[Len(row_ranges)]) + 1

\* ------------------------------------------------------------ serializer
\* part numbers a job_id can reach: at most one part per row
PartNumbers == 1..MaxRowID

\* the parts of the job_id that exist in the checkpoint directory
\* (glob checkpoint_{job_id}_part*.csv)
ExistingParts(d) == { p \in DOMAIN d : d[p].exists }

MaxOf(S) == CHOOSE x \in S : \A y \in S : y <= x

should_checkpoint_no_final_flush(current_row_count, total_rows, interval) ==
    current_row_count % interval = 0

should_checkpoint(current_row_count, total_rows, interval) ==
    \/ current_row_count % interval = 0
    \/ current_row_count = total_rows

\* find_last_checkpoint: the highest-numbered part and its trailing RowID;
\* a part that cannot be read (no row in it) gives (None, 0)
find_last_checkpoint(d) ==
    IF ExistingParts(d) = {} THEN [found |-> FALSE, last_row_id |-> 0]
    ELSE LET last_num == MaxOf(ExistingParts(d))
             rows == d[last_num].rows
         IN  IF Len(rows) = 0 THEN [found |-> FALSE, last_row_id |-> 0]
             ELSE [found |-> TRUE, last_row_id |-> rows[Len(rows)].RowID]

get_resume_point(d, frame) ==
    LET last == find_last_checkpoint(d)
        after(r) == r.RowID > last.last_row_id
    IN  IF last.found
        THEN [df_remaining |-> SelectSeq(frame, after),
              last_row_id |-> last.last_row_id, has_checkpoint |-> TRUE]
        ELSE [df_remaining |-> frame, last_row_id |-> 0, has_checkpoint |-> FALSE]

Loc(frame, i) == CHOOSE r \in { frame[k] : k \in 1..Len(frame) } : r.idx = i

\* prepare_checkpoint_data: the RowID column of original_df.loc[indices]
\* next to the results, position by position
prepare_checkpoint_data(res, indices, original_df) ==
    [ i \in 1..Len(indices) |->
        [RowID |-> Loc(original_df, indices[i]).RowID, res |-> res[i]] ]

RECURSIVE Digits(_)
\* the decimal digits of a part number
Digits(n) == IF n < 10 THEN <<n>> ELSE Append(Digits(n \div 10), n % 10)

\* list_checkpoints, sorted(): part p is listed before part q. The names
\* differ in the part number only, written with format 04d and followed by
\* ".csv"; "." sorts before every digit
NameBefore(p, q) ==
    LET name(n) == [ k \in 1..(4 - Len(Digits(n))) |-> 0 ] \o Digits(n)
        a == name(p)
        b == name(q)
    IN  \E k \in 1..Len(b) :
            /\ \A j \in 1..(k - 1) : j <= Len(a) /\ a[j] = b[j]
            /\ k > Len(a) \/ a[k] < b[k]

RECURSIVE ConcatParts(_, _)
\* the rows of the parts in S, in the order of list_checkpoints; a part
\* that cannot be read is skipped
ConcatParts(d, S) ==
    IF S = {} THEN <<>>
    ELSE LET m == CHOOSE x \in S : \A y \in S \ {x} : NameBefore(x, y)
         IN  d[m].rows \o ConcatParts(d, S \ {m})

\* merge_checkpoints returns True: some part was loaded
merge_succeeds(d) == \E p \in ExistingParts(d) : Len(d[p].rows) > 0

\* merge_checkpoints: False and nothing written without parts (or when no
\* part can be read), else the concatenation written to output_path
merge_checkpoints(d, out) ==
    IF ~merge_succeeds(d) THEN out
    ELSE File(ConcatParts(d, ExistingParts(d)))

\* ------------------------------------------------------- one job_id
\* the ranges the orchestrator can hand to a worker of this file
WorkerRanges(file) ==
    UNION { { get_row_ranges(file, par)[i] : i \in 1..Len(get_row_ranges(file, par)) } :
            par \in { q \in Parallelizations : q.split_strategy = "auto" } }

\* Interface.select_row_range: 1 <= start_row <= end_row <= total_rows
RunnerRanges(file) ==
    { [start |-> a, end |-> b, worker_id |-> 1] :
        a \in 1..Len(file), b \in 1..Len(file) } \cap
    { r \in [start : 1..MaxRowID, end : 1..MaxRowID, worker_id : {1}] : r.start <= r.end }

JobInit ==
    /\ input_file \in InputFiles
    /\ program \in {"worker", "runner"}
    /\ has_rowid \in (IF program = "runner" THEN {TRUE} ELSE BOOLEAN)
    /\ \E r \in IF program = "worker" THEN WorkerRanges(input_file)
                                          ELSE RunnerRanges(input_file) :
         /\ row_start = r.start
         /\ row_end = r.end
    /\ parallelization = [enabled |-> FALSE, split_strategy |-> "auto",
                          workers |-> 1, manual_ranges |-> <<>>]
    /\ row_ranges = <<>> /\ plan_pc = "job" /\ loaded = <<>>
    /\ attempt = 0 /\ pc = "idle" /\ df = <<>>
    /\ batch_size = 1 /\ checkpoint_interval = 1
    /\ results = <<>> /\ last_checkpoint_row = 0 /\ checkpoint_counter = 0
    /\ disk = [ p \in PartNumbers |-> NoFile ]
    /\ submitted = [ p \in PartNumbers |-> <<>> ]
    /\ saves = <<>>
    /\ disk_at_start = disk
    /\ ever_saved = {}
    /\ output = NoFile
    /\ WorkerIdle
    /\ OrchIdle
    /\ ToolIdle

\* the file and range of the job never change
JobFrame == UNCHANGED <<input_file, has_rowid, planVars, program, row_start, row_end,
                        statusVars, orchVars, toolVars>>

\* where the for loop of process_dataframe goes after a batch
AfterBatch(done_rows, total_rows) == IF done_rows >= total_rows THEN "merge" ELSE "loop"

\* Worker.run up to the call of process_dataframe (W_worker.py is spawned by
\* the orchestrator: first spawn, retry, or resume of the run)
StartWorker(b, k) ==
    /\ program = "worker"
    /\ pc \in {"idle", "killed", "done"}
    /\ attempt < MaxAttempts
    /\ attempt' = attempt + 1
    /\ batch_size' = b
    /\ checkpoint_interval' = k
    /\ df' = load_data(input_file, has_rowid, row_start, row_end)
    /\ results' = <<>>
    /\ last_checkpoint_row' = 0
    /\ checkpoint_counter' = 0
    /\ saves' = <<>>
    /\ disk_at_start' = disk
    /\ pc' = IF Len(df') = 0 THEN "done" ELSE "loop"
    /\ UNCHANGED <<disk, submitted, ever_saved, output>>
    /\ JobFrame

\* runner.main up to the call of process_dataframe; the batch size is part
\* of the job_id, so a later invocation for the same job_id has the same one
StartRunner(b, k, confirm_resume) ==
    /\ program = "runner"
    /\ pc \in {"idle", "killed", "done"}
    /\ attempt < MaxAttempts
    /\ attempt = 0 \/ b = batch_size
    /\ attempt' = attempt + 1
    /\ batch_size' = b
    /\ checkpoint_interval' = k
    /\ LET all == read_csv(input_file)
           df_to_process == SubSeq(all, row_start, Min(row_end, Len(all)))
           rp == get_resume_point(disk, df_to_process)
       IN  /\ df' = IF rp.has_checkpoint /\ confirm_resume
                    THEN rp.df_remaining ELSE df_to_process
           /\ rp.has_checkpoint \/ confirm_resume
    /\ results' = <<>>
    /\ last_checkpoint_row' = 0
    /\ checkpoint_counter' = 0
    /\ saves' = <<>>
    /\ disk_at_start' = disk
    /\ IF Len(df') = 0
       THEN /\ output' = merge_checkpoints(disk, output)
            /\ pc' = "done"
       ELSE /\ output' = output
            /\ pc' = "loop"
    /\ UNCHANGED <<disk, submitted, ever_saved>>
    /\ JobFrame

\* one iteration of the batch loop of process_dataframe, up to the moment
\* save_checkpoint has opened (and so truncated) the part file
ProcessBatch ==
    /\ pc = "loop"
    /\ Len(results) < Len(df)
    /\ LET row_indices == [ i \in 1..Len(df) |-> df[i].idx ]
           total_rows == Len(df)
           i == Len(results)
           batch_indices == SubSeq(row_indices, i + 1, Min(i + batch_size, total_rows))
           batch_results == [ j \in 1..Len(batch_indices) |-> Loc(df, batch_indices[j]).RowID ]
           new_results == results \o batch_results
           current_row_num == Len(new_results)
           new_results_count == current_row_num - last_checkpoint_row
       IN  /\ results' = new_results
           /\ IF should_checkpoint(current_row_num, total_rows, checkpoint_interval)
                 /\ new_results_count > 0
              THEN LET checkpoint_results ==
                           SubSeq(new_results, current_row_num - new_results_count + 1,
                                  current_row_num)
                       checkpoint_indices ==
                           SubSeq(row_indices, last_checkpoint_row + 1, current_row_num)
                       checkpoint_data ==
                           prepare_checkpoint_data(checkpoint_results, checkpoint_indices, df)
                   IN  /\ checkpoint_counter' = checkpoint_counter + 1
                       /\ disk' = [disk EXCEPT ![checkpoint_counter'] = File(<<>>)]
                       /\ submitted' = [submitted EXCEPT ![checkpoint_counter'] = checkpoint_data]
                       /\ saves' = Append(saves, [part |-> checkpoint_counter',
                                                  rows |-> checkpoint_data,
                                                  at |-> current_row_num])
                       /\ ever_saved' = ever_saved \cup RowIDsOf(checkpoint_data)
                       /\ pc' = "saving"
              ELSE /\ pc' = AfterBatch(current_row_num, total_rows)
                   /\ UNCHANGED <<checkpoint_counter, disk, submitted, saves, ever_saved>>
    /\ UNCHANGED <<attempt, df, batch_size, checkpoint_interval, last_checkpoint_row,
                   disk_at_start, output>>
    /\ JobFrame

\* df_chunk.to_csv(checkpoint_file) writes the next row of the part; after
\* the last row save_checkpoint returns and the loop records the position
WriteRow ==
    /\ pc = "saving"
    /\ LET p == checkpoint_counter
           data == submitted[p]
           written == Append(disk[p].rows, data[Len(disk[p].rows) + 1])
       IN  /\ disk' = [disk EXCEPT ![p] = File(written)]
           /\ IF Len(written) = Len(data)
              THEN /\ last_checkpoint_row' = Len(results)
                   /\ pc' = AfterBatch(Len(results), Len(df))
              ELSE /\ UNCHANGED last_checkpoint_row
                   /\ pc' = "saving"
    /\ UNCHANGED <<attempt, df, batch_size, checkpoint_interval, results,
                   checkpoint_counter, submitted, saves, disk_at_start, ever_saved, output>>
    /\ JobFrame

\* after process_dataframe returned: serializer.merge_checkpoints(job_id, output_path)
Merge ==
    /\ pc = "merge"
    /\ output' = merge_checkpoints(disk, output)
    /\ pc' = "done"
    /\ UNCHANGED <<attempt, df, batch_size, checkpoint_interval, results,
                   last_checkpoint_row, checkpoint_counter, disk, submitted, saves,
                   disk_at_start, ever_saved>>
    /\ JobFrame

\* the process is killed (SIGKILL, power loss) wherever it is
Kill ==
    /\ pc \in {"loop", "saving", "merge"}
    /\ pc' = "killed"
    /\ UNCHANGED <<attempt, df, batch_size, checkpoint_interval, results,
                   last_checkpoint_row, checkpoint_counter, disk, submitted, saves,
                   disk_at_start, ever_saved, output>>
    /\ JobFrame

Next ==
    \/ \E b \in 1..MaxBatch, k \in 1..MaxInterval : StartWorker(b, k)
    \/ \E b \in 1..MaxBatch, k \in 1..MaxInterval, c \in BOOLEAN : StartRunner(b, k, c)
    \/ ProcessBatch
    \/ WriteRow
    \/ Merge
    \/ Kill

Spec == JobInit /\ [][Next]_vars

\* ------------------------------------------- claims about checkpointing
RECURSIVE SavedRows(_)
\* the rows of the save_checkpoint calls sv, call after call
SavedRows(sv) == IF sv = <<>> THEN <<>> ELSE sv[1].rows \o SavedRows(Tail(sv))

\* process_dataframe of the current attempt has returned normally
Returned == pc \in {"merge", "done"} /\ attempt >= 1

\* the rows 1..n of the slice, each with the result computed for it
SliceUpTo(n) == [ i \in 1..n |-> [RowID |-> df[i].RowID, res |-> df[i].RowID] ]

\* C5: within one invocation of process_dataframe the parts written are
\* numbered 1,2,3,... without gap, together they hold exactly the rows
\* processed up to the last checkpoint, in order and each once (so each part
\* holds the rows since the previous part), every part file whose save
\* returned holds the rows handed to it, and on normal return every row of
\* the slice is in exactly one part.
C5_PartsPartitionSlice ==
    LET n == Len(saves)
        upto == IF n = 0 THEN 0 ELSE saves[n].at
    IN  /\ \A j \in 1..n : saves[j].part = j /\ Len(saves[j].rows) > 0
        /\ upto <= Len(df)
        /\ SavedRows(saves) = SliceUpTo(upto)
        /\ \A j \in 1..n : (j < n \/ last_checkpoint_row = upto) => disk[j] = File(saves[j].rows)
        /\ Returned => SavedRows(saves) = SliceUpTo(Len(df))

C5_Witness ==
    /\ pc = "done" /\ Len(df) >= 3 /\ Len(saves) >= 2
    /\ Len(df) % checkpoint_interval # 0
    /\ \E j \in 1..Len(saves) : Len(saves[j].rows) >= 2

\* RowIDs held by part p of directory d
PartRowIDs(d, p) == RowIDsOf(d[p].rows)

\* C6: whenever no part file is being written, the parts of the job_id are
\* numbered 1..k without gaps, every RowID of part i is smaller than every
\* RowID of part i+1, no RowID is held twice, and the RowIDs of all parts
\* together are the RowIDs checkpointed for the range.
C6_PartsOrderedAndComplete ==
    pc # "saving" =>
      LET E == ExistingParts(disk)
      IN  /\ E = 1..Cardinality(E)
          /\ \A i \in E : (i + 1) \in E =>
                \A a \in PartRowIDs(disk, i), b \in PartRowIDs(disk, i + 1) : a < b
          /\ \A i \in E, j \in E : i # j => PartRowIDs(disk, i) \cap PartRowIDs(disk, j) = {}
          /\ \A i \in E : Cardinality(PartRowIDs(disk, i)) = Len(disk[i].rows)
          /\ UNION { PartRowIDs(disk, i) : i \in E } = ever_saved

\* C7: a part file, once written, is never written again: every
\* save_checkpoint call targets a part number greater than every part
\* number on disk for the job_id.
C7_NeverRewritten ==
    [][ (pc = "loop" /\ pc' = "saving")
          => \A p \in ExistingParts(disk) : checkpoint_counter' > p ]_vars

\* C8: N rows with checkpoint interval K give exactly ceil(N/K) parts,
\* numbered 1,2,..., written at processed counts K, 2K, ..., N, for every
\* batch size.
C8_PartEveryInterval ==
    (Returned /\ Len(df) > 0) =>
      LET N == Len(df)
          K == checkpoint_interval
      IN  /\ Len(saves) = (N + K - 1) \div K
          /\ \A j \in 1..Len(saves) :
               saves[j].part = j /\ saves[j].at = Min(j * K, N)

\* C9: save_checkpoint is all-or-nothing: a part file that exists and is not
\* being written by a live process holds all the rows handed to
\* save_checkpoint for it, also after a crash during save_checkpoint.
C9_AllOrNothing ==
    \A p \in PartNumbers :
       (disk[p].exists /\ ~(pc = "saving" /\ p = checkpoint_counter))
       => disk[p].rows = submitted[p]

\* C10: a worker started for a job_id that already has parts on disk sends
\* to the model only rows with RowID greater than the last RowID of the
\* highest-numbered part, and no row that is already in a part.
C10_WorkerResumesFromFrontier ==
    (program = "worker" /\ attempt >= 1 /\ ExistingParts(disk_at_start) # {})
    => \A i \in 1..Len(results) :
          /\ results[i] > find_last_checkpoint(disk_at_start).last_row_id
          /\ \A p \in ExistingParts(disk_at_start) : results[i] \notin PartRowIDs(disk_at_start, p)

\* ------------------------------------------- one worker process and its status file
\* self.status.update(kwargs)
update(st, kwargs) ==
    [ f \in DOMAIN st |-> IF f \in DOMAIN kwargs THEN kwargs[f] ELSE st[f] ]

set_running_keeps_state(st, rstart, rend, total_rows) ==
    update(st, [row_start |-> rstart, row_end |-> rend,
                total_rows |-> total_rows, current_row |-> rstart])

set_running(st, rstart, rend, total_rows) ==
    update(st, [state |-> "running", row_start |-> rstart, row_end |-> rend,
                total_rows |-> total_rows, current_row |-> rstart])

set_progress_counts_ahead(st, current_row, rows_processed) ==
    update(st, [current_row |-> current_row, rows_processed |-> rows_processed + 1])

\* the first update of set_progress (the second one only stores the metrics)
set_progress(st, current_row, rows_processed) ==
    update(st, [current_row |-> current_row, rows_processed |-> rows_processed])

add_checkpoint(st) == [st EXCEPT !.checkpoints = @ + 1]

set_completed(st, output_file, rows_processed) ==
    update(st, [state |-> "completed", output_file |-> output_file,
                rows_processed |-> rows_processed])

set_failed(st, error_msg) ==
    update(st, [state |-> "failed", last_error |-> error_msg])

\* Orchestrator.read_worker_status: None when the file is missing or when
\* json.load fails on it
read_worker_status(file) ==
    IF ~file.exists THEN [kind |-> "missing", doc |-> NoDocument]
    ELSE IF ~file.complete THEN [kind |-> "unparseable", doc |-> NoDocument]
    ELSE [kind |-> "document", doc |-> file.doc]

\* the configurations of the worker process: batch size, checkpoint interval
\* and the number of rows load_data returns for its range
WorkerConfigs ==
    { [batch_size |-> b, checkpoint_interval |-> k,
       row_start |-> 1, row_end |-> n, total_rows |-> n] :
        b \in 1..MaxBatch, k \in 1..MaxInterval, n \in 0..MaxRowID }

StatusInit ==
    /\ input_file = <<>> /\ has_rowid = TRUE
    /\ parallelization = [enabled |-> FALSE, split_strategy |-> "auto",
                          workers |-> 1, manual_ranges |-> <<>>]
    /\ row_ranges = <<>> /\ plan_pc = "worker" /\ loaded = <<>>
    /\ JobIdle
    /\ ToolIdle
    /\ worker_config \in WorkerConfigs
    /\ run_pc = "main" /\ save_pc = "closed"
    /\ worker_status = NoDocument /\ status_file = NoStatusFile
    /\ documents = <<>>
    /\ proc = [results |-> 0, last_checkpoint_row |-> 0, checkpoint_counter |-> 0]
    /\ monitor_started = FALSE /\ raised = FALSE /\ interrupted = FALSE
    /\ exit_code = Unset /\ last_read = NothingRead
    /\ OrchIdle

WorkerFrame == UNCHANGED <<input_file, has_rowid, planVars, jobVars, worker_config,
                           orchVars, toolVars>>

\* the process runs and is not inside WorkerStatus.save
At(position) == exit_code = Unset /\ save_pc = "closed" /\ run_pc = position

\* WorkerStatus.update/save up to open(self.status_file, 'w'): the dict is
\* changed and the file truncated
OpenStatus(st) ==
    /\ worker_status' = st
    /\ status_file' = OpenedStatusFile
    /\ save_pc' = "open"

\* json.dump(self.status, f) and the close of the file
Dump ==
    /\ exit_code = Unset /\ save_pc = "open"
    /\ status_file' = StatusFile(worker_status)
    /\ documents' = Append(documents, worker_status)
    /\ save_pc' = "closed"
    /\ UNCHANGED <<run_pc, worker_status, proc, monitor_started, raised, interrupted,
                   exit_code, last_read>>
    /\ WorkerFrame

\* main: Worker(config) -> WorkerStatus.__init__ writes the first document;
\* Monitor.__init__ leaves start_time = None
Worker_init ==
    /\ At("main")
    /\ OpenStatus(InitialStatus)
    /\ run_pc' = "prompts"
    /\ UNCHANGED <<documents, proc, monitor_started, raised, interrupted, exit_code,
                   last_read>>
    /\ WorkerFrame

\* Worker.run: the prompts config is read
LoadPrompts ==
    /\ At("prompts")
    /\ run_pc' = "load_data"
    /\ UNCHANGED <<save_pc, worker_status, status_file, documents, proc,
                   monitor_started, raised, interrupted, exit_code, last_read>>
    /\ WorkerFrame

\* Worker.run: df = self.load_data(); an empty slice completes at once,
\* otherwise the range is stored in the status
LoadData ==
    /\ At("load_data")
    /\ IF worker_config.total_rows = 0
       THEN /\ OpenStatus(set_completed(worker_status, "null", 0))
            /\ run_pc' = "return_success"
       ELSE /\ OpenStatus(update(worker_status,
                                 [row_start |-> worker_config.row_start,
                                  row_end |-> worker_config.row_end]))
            /\ run_pc' = "start"
    /\ UNCHANGED <<documents, proc, monitor_started, raised, interrupted, exit_code,
                   last_read>>
    /\ WorkerFrame

\* MonitorBridge.start: Monitor.start sets start_time, then set_running
MonitorStart ==
    /\ At("start")
    /\ monitor_started' = TRUE
    /\ OpenStatus(set_running(worker_status, worker_status.row_start,
                              worker_status.row_end, worker_config.total_rows))
    /\ run_pc' = "processor"
    /\ UNCHANGED <<documents, proc, raised, interrupted, exit_code, last_read>>
    /\ WorkerFrame

\* Worker.run: Processor(...) connects to the model server, Serializer(...)
InitProcessor ==
    /\ At("processor")
    /\ run_pc' = "batch"
    /\ UNCHANGED <<save_pc, worker_status, status_file, documents, proc,
                   monitor_started, raised, interrupted, exit_code, last_read>>
    /\ WorkerFrame

\* process_dataframe: the progress update that ends a loop iteration is made
\* when the row count is a multiple of max(batch_size, total_rows // 20) or
\* the last row is done; then the loop goes on or returns
AfterCheckpoint(current_row_num) ==
    LET total_rows == worker_config.total_rows
        update_frequency == Max(worker_config.batch_size, total_rows \div 20)
    IN  IF current_row_num % update_frequency = 0 \/ current_row_num = total_rows
        THEN "progress"
        ELSE IF current_row_num >= total_rows THEN "merge" ELSE "batch"

\* process_dataframe: one batch is processed and its results appended
Batch ==
    /\ At("batch")
    /\ LET current_row_num == Min(proc.results + worker_config.batch_size,
                                  worker_config.total_rows)
       IN  /\ proc' = [proc EXCEPT !.results = current_row_num]
           /\ run_pc' = IF should_checkpoint(current_row_num, worker_config.total_rows,
                                             worker_config.checkpoint_interval)
                        THEN "checkpoint_progress"
                        ELSE AfterCheckpoint(current_row_num)
    /\ UNCHANGED <<save_pc, worker_status, status_file, documents,
                   monitor_started, raised, interrupted, exit_code, last_read>>
    /\ WorkerFrame

\* MonitorBridge.update_progress -> WorkerStatus.set_progress, first update
UpdateProgress ==
    /\ At("checkpoint_progress") \/ At("progress")
    /\ OpenStatus(set_progress(worker_status, proc.results, proc.results))
    /\ run_pc' = IF run_pc = "progress" THEN "progress_metrics" ELSE "checkpoint_metrics"
    /\ UNCHANGED <<documents, proc, monitor_started, raised, interrupted, exit_code,
                   last_read>>
    /\ WorkerFrame

\* WorkerStatus.set_progress, second update: the throughput metrics
UpdateMetrics ==
    /\ At("checkpoint_metrics") \/ At("progress_metrics")
    /\ OpenStatus(worker_status)
    /\ run_pc' = IF run_pc = "checkpoint_metrics" THEN "save_checkpoint"
                 ELSE IF proc.results >= worker_config.total_rows THEN "merge"
                 ELSE "batch"
    /\ UNCHANGED <<documents, proc, monitor_started, raised, interrupted, exit_code,
                   last_read>>
    /\ WorkerFrame

\* process_dataframe: serializer.save_checkpoint writes the next part
SaveCheckpoint ==
    /\ At("save_checkpoint")
    /\ proc.results - proc.last_checkpoint_row > 0
    /\ proc' = [proc EXCEPT !.checkpoint_counter = @ + 1]
    /\ run_pc' = "record_checkpoint"
    /\ UNCHANGED <<save_pc, worker_status, status_file, documents,
                   monitor_started, raised, interrupted, exit_code, last_read>>
    /\ WorkerFrame

\* MonitorBridge.record_checkpoint -> WorkerStatus.add_checkpoint, then
\* last_checkpoint_row = current_row_num
RecordCheckpoint ==
    /\ At("record_checkpoint")
    /\ OpenStatus(add_checkpoint(worker_status))
    /\ proc' = [proc EXCEPT !.last_checkpoint_row = proc.results]
    /\ run_pc' = AfterCheckpoint(proc.results)
    /\ UNCHANGED <<documents, monitor_started, raised, interrupted, exit_code,
                   last_read>>
    /\ WorkerFrame

\* Worker.run: serializer.merge_checkpoints(job_id, output_path)
MergeCheckpoints ==
    /\ At("merge")
    /\ run_pc' = "finish"
    /\ UNCHANGED <<save_pc, worker_status, status_file, documents, proc,
                   monitor_started, raised, interrupted, exit_code, last_read>>
    /\ WorkerFrame

\* Worker.run: self.monitor_bridge.finish() on the success path
MonitorFinish ==
    /\ At("finish")
    /\ run_pc' = "set_completed"
    /\ UNCHANGED <<save_pc, worker_status, status_file, documents, proc,
                   monitor_started, raised, interrupted, exit_code, last_read>>
    /\ WorkerFrame

\* Worker.run: self.worker_status.set_completed(str(output_path), len(results))
SetCompleted ==
    /\ At("set_completed")
    /\ OpenStatus(set_completed(worker_status, "output_path", proc.results))
    /\ run_pc' = "return_success"
    /\ UNCHANGED <<documents, proc, monitor_started, raised, interrupted, exit_code,
                   last_read>>
    /\ WorkerFrame

\* the steps of the try block of Worker.run that can raise: reading the
\* prompts config, load_data, Processor(...), the batch loop,
\* save_checkpoint, merge_checkpoints
RaisePoints == {"prompts", "load_data", "processor", "batch", "save_checkpoint", "merge"}

Raise ==
    /\ \E position \in RaisePoints : At(position)
    /\ raised' = TRUE
    /\ run_pc' = "except"
    /\ UNCHANGED <<save_pc, worker_status, status_file, documents, proc,
                   monitor_started, interrupted, exit_code, last_read>>
    /\ WorkerFrame

\* except Exception: self.monitor_bridge.finish() comes first; Monitor.finish
\* computes time.time() - self.start_time, a TypeError while start_time is
\* None, which leaves run and main: the interpreter exits with code 1
Handler ==
    /\ At("except")
    /\ IF monitor_started
       THEN run_pc' = "set_failed" /\ UNCHANGED exit_code
       ELSE run_pc' = "exited" /\ exit_code' = 1
    /\ UNCHANGED <<save_pc, worker_status, status_file, documents, proc,
                   monitor_started, raised, interrupted, last_read>>
    /\ WorkerFrame

\* except Exception: self.worker_status.set_failed(error_msg)
SetFailed ==
    /\ At("set_failed")
    /\ OpenStatus(set_failed(worker_status, "error_msg"))
    /\ run_pc' = "return_failed"
    /\ UNCHANGED <<documents, proc, monitor_started, raised, interrupted, exit_code,
                   last_read>>
    /\ WorkerFrame

\* main: sys.exit(0 if result['status'] == 'success' else 1)
Exit ==
    /\ At("return_success") \/ At("return_failed")
    /\ exit_code' = IF run_pc = "return_success" THEN 0 ELSE 1
    /\ run_pc' = "exited"
    /\ UNCHANGED <<save_pc, worker_status, status_file, documents, proc,
                   monitor_started, raised, interrupted, last_read>>
    /\ WorkerFrame

\* SIGINT: KeyboardInterrupt is not an Exception, no handler of the worker
\* catches it; the process ends where it is, a file it was writing is closed
\* as it is
Interrupt ==
    /\ exit_code = Unset
    /\ run_pc \notin {"main", "exited"}
    /\ interrupted' = TRUE
    /\ exit_code' = 130
    /\ run_pc' = "exited"
    /\ save_pc' = "closed"
    /\ UNCHANGED <<worker_status, status_file, documents, proc, monitor_started,
                   raised, last_read>>
    /\ WorkerFrame

\* the orchestrator polls the status file at any time
ReadStatus ==
    /\ last_read' = read_worker_status(status_file)
    /\ UNCHANGED <<run_pc, save_pc, worker_status, status_file, documents, proc,
                   monitor_started, raised, interrupted, exit_code>>
    /\ WorkerFrame

StatusNext ==
    \/ Worker_init
    \/ Dump
    \/ LoadPrompts
    \/ LoadData
    \/ MonitorStart
    \/ InitProcessor
    \/ Batch
    \/ UpdateProgress
    \/ UpdateMetrics
    \/ SaveCheckpoint
    \/ RecordCheckpoint
    \/ MergeCheckpoints
    \/ MonitorFinish
    \/ SetCompleted
    \/ Raise
    \/ Handler
    \/ SetFailed
    \/ Exit
    \/ Interrupt
    \/ ReadStatus

StatusSpec == StatusInit /\ [][StatusNext]_vars

\* ------------------------------------------------ claims about the status file
AllowedMove(d, e) ==
    \/ d.state = e.state /\ d.state \in {"initializing", "running"}
    \/ d.state = "initializing" /\ e.state = "running"
    \/ d.state = "running" /\ e.state \in {"completed", "failed"}
    \/ d.state = "initializing" /\ e.state = "failed"
    \/ /\ d.state = "initializing" /\ e.state = "completed"
       /\ worker_config.total_rows = 0
       /\ e.output_file = "null" /\ e.rows_processed = 0

\* C14: within one worker attempt the state of the status documents only
\* moves initializing -> running -> completed | failed, initializing ->
\* failed, or initializing -> completed (only for a range of zero rows, with
\* output_file null and rows_processed 0); the first document is written in
\* initializing before any row is processed; nothing follows completed or
\* failed
C14_StatusTransitions ==
    /\ \A i \in 1..(Len(documents) - 1) : AllowedMove(documents[i], documents[i + 1])
    /\ Len(documents) >= 1 => documents[1].state = "initializing"
    /\ proc.results > 0 => Len(documents) >= 1

C14_Witness ==
    /\ run_pc = "exited" /\ exit_code = 0
    /\ worker_config.total_rows > 1
    /\ \E i \in 1..Len(documents) : documents[i].state = "running"
    /\ documents[Len(documents)].state = "completed"

\* C15: after an exception raised at any step of Worker.run the last status
\* write has state failed with last_error set and the process exits with
\* code 1; a process never exits leaving its status initializing or running
C15_ExceptionWritesFailed ==
    (run_pc = "exited" /\ ~interrupted) =>
        /\ status_file.doc.state \notin {"initializing", "running"}
        /\ raised => /\ status_file.doc.state = "failed"
                     /\ status_file.doc.last_error # "null"
                     /\ exit_code = 1

\* C16: a worker process that receives SIGINT has written state failed to
\* its status file by the time it has exited
C16_InterruptWritesFailed ==
    interrupted => status_file.complete /\ status_file.doc.state = "failed"

\* C17 as stated: in every status document rows_processed <= total_rows,
\* every completed document has rows_processed = total_rows, and no running
\* or failed document has rows_processed = total_rows
C17_ProcessedEqualsTotalIffCompleted ==
    \A i \in 1..Len(documents) :
        LET d == documents[i]
        IN  /\ d.rows_processed <= d.total_rows
            /\ d.state = "completed" => d.rows_processed = d.total_rows
            /\ d.state \in {"running", "failed"} => d.rows_processed # d.total_rows

\* C17 amended: in every status document rows_processed <= total_rows and
\* every completed document has rows_processed = total_rows; a running or
\* failed document has rows_processed = total_rows only when every row of
\* the slice has been processed (the progress update after the last batch)
C17_CompletedHasAllRows ==
    \A i \in 1..Len(documents) :
        LET d == documents[i]
        IN  /\ d.rows_processed <= d.total_rows
            /\ d.state = "completed" => d.rows_processed = d.total_rows
            /\ (d.state \in {"running", "failed"} /\ d.rows_processed = d.total_rows)
                   => proc.results = worker_config.total_rows

C17_Witness ==
    /\ run_pc = "exited" /\ exit_code = 0
    /\ worker_config.total_rows > 1
    /\ \E i \in 1..Len(documents) :
           /\ documents[i].state = "running"
           /\ documents[i].rows_processed = documents[i].total_rows
    /\ \E i \in 1..Len(documents) :
           /\ documents[i].state = "running"
           /\ documents[i].rows_processed > 0
           /\ documents[i].rows_processed < documents[i].total_rows

\* C18: whenever the orchestrator reads the status file it obtains a
\* complete document, never an empty or partially written file
C18_ReaderSeesCompleteDocument ==
    last_read.kind # "unparseable"

\* ------------------------------------------ one run_id: orchestrator and workers
RunId == "run_id"

\* Worker.run: job_id = f"{row_start}-{row_end}_w{worker_id}_{run_id}"
job_id(rstart, rend, worker_id, run_id) == <<rstart, rend, worker_id, run_id>>

JobIdOf(range) == job_id(range.start, range.end, range.worker_id, RunId)

\* generate_output_name: the pattern filled with the label, then _w<id> for a
\* worker's file (worker_id 0 stands for None, the merged file)
generate_output_name(label, worker_id) == [label |-> label, worker_id |-> worker_id]

\* output_file: null in a status document
NoName == [label |-> 0, worker_id |-> 0]

\* the RowID column of a queued file of n rows
QueueFile(item) == SortedSeq(1..item.rows)

RunParallelization ==
    [enabled |-> TRUE, split_strategy |-> "auto", workers |-> config.workers,
     manual_ranges |-> <<>>]

\* the ranges get_row_ranges plans for the file of a queue item
PlannedRanges(item) == get_row_ranges(QueueFile(item), RunParallelization)

Labels == 1..Len(input_queue)

WorkerIds == 1..MaxSpawn

RangeSet(ranges) == { ranges[i] : i \in 1..Len(ranges) }

\* every job_id a worker of the run can be given
RunJobIds == UNION { { JobIdOf(r) : r \in RangeSet(PlannedRanges(input_queue[l])) } : l \in Labels }

OutputNames == { generate_output_name(l, w) : l \in Labels, w \in 0..MaxSpawn }

NoStatus == [exists |-> FALSE, state |-> "none", output_file |-> NoName]

Status(state, output_file) == [exists |-> TRUE, state |-> state, output_file |-> output_file]

Queues ==
    UNION { [ 1..n -> [rows : 1..MaxFileRows] ] : n \in 1..MaxQueue }

\* error_handling.get('max_worker_retries', 2)
DefaultMaxWorkerRetries == 2

Configs ==
    [ workers : 1..MaxSpawn, batch_size : 1..MaxRunBatch,
      checkpoint_interval : 1..MaxRunInterval,
      merge_condition : {"all_success"}, prompt_on_failure : {TRUE},
      auto_merge : {TRUE}, max_worker_retries : {DefaultMaxWorkerRetries} ]

OrchInit ==
    /\ input_file = <<>> /\ has_rowid = TRUE
    /\ parallelization = [enabled |-> FALSE, split_strategy |-> "auto",
                          workers |-> 1, manual_ranges |-> <<>>]
    /\ row_ranges = <<>> /\ plan_pc = "run" /\ loaded = <<>>
    /\ JobIdle
    /\ ToolIdle
    /\ WorkerIdle
    /\ input_queue \in Queues
    /\ config \in Configs
    /\ orch = NoOrchestrator
    /\ invocations = 0
    /\ run_manifest = <<>>
    /\ processes = <<>>
    /\ status_dir = [ w \in WorkerIds |-> NoStatus ]
    /\ checkpoint_dir = [ j \in RunJobIds |-> [ p \in PartNumbers |-> NoFile ] ]
    /\ output_dir = [ n \in OutputNames |-> NoFile ]
    /\ kills = 0 /\ failures = 0

OrchFrame == UNCHANGED <<input_file, has_rowid, planVars, jobVars, statusVars,
                         input_queue, config, toolVars>>

\* --- the manifest
ManifestLabels(manifest) == { manifest[i].label : i \in 1..Len(manifest) }

update_manifest_without_outputs(manifest, label, ranges) ==
    LET file_entry == [label |-> label, status |-> "pending", row_ranges |-> ranges,
                       expected_outputs |-> <<>>, merged_output |-> NoName]
    IN  IF label \in ManifestLabels(manifest)
        THEN [ i \in 1..Len(manifest) |->
                 IF manifest[i].label = label THEN file_entry ELSE manifest[i] ]
        ELSE Append(manifest, file_entry)

\* update_manifest_for_file: the entry of the label is replaced, or appended
update_manifest_for_file(manifest, label, ranges) ==
    LET expected_outputs ==
            [ i \in 1..Len(ranges) |-> generate_output_name(label, ranges[i].worker_id) ]
        file_entry == [label |-> label, status |-> "pending", row_ranges |-> ranges,
                       expected_outputs |-> expected_outputs,
                       merged_output |-> NoName]
    IN  IF label \in ManifestLabels(manifest)
        THEN [ i \in 1..Len(manifest) |->
                 IF manifest[i].label = label THEN file_entry ELSE manifest[i] ]
        ELSE Append(manifest, file_entry)

\* mark_manifest_file_status
mark_manifest_file_status(manifest, label, status, merged_output) ==
    [ i \in 1..Len(manifest) |->
        IF manifest[i].label = label
        THEN [manifest[i] EXCEPT !.status = status,
                                 !.merged_output = IF merged_output # NoName
                                                   THEN merged_output ELSE @]
        ELSE manifest[i] ]

RECURSIVE MarkUnprocessed(_, _)
\* Orchestrator.run, after the loop: every queue item without an entry gets
\* a pending entry with no ranges
MarkUnprocessed(manifest, l) ==
    IF l > Len(input_queue) THEN manifest
    ELSE MarkUnprocessed(IF l \in ManifestLabels(manifest) THEN manifest
                         ELSE update_manifest_for_file(manifest, l, <<>>), l + 1)

\* --- worker processes of the run
Live(p) == p.pc \notin {"exited", "killed"}

SliceOf(p) ==
    load_data(QueueFile(input_queue[p.label]), TRUE, p.range.start, p.range.end)

NewProcess(label, range) ==
    [label |-> label, range |-> range, inv |-> invocations, pc |-> "spawned",
     results |-> 0, last_checkpoint_row |-> 0, checkpoint_counter |-> 0]

\* a process that is gone has no locals
Gone(p, how) ==
    [p EXCEPT !.pc = how, !.results = 0, !.last_checkpoint_row = 0,
              !.checkpoint_counter = 0]

\* spawn_worker for every range, in order
Spawn(label, ranges) == [ i \in 1..Len(ranges) |-> NewProcess(label, ranges[i]) ]

\* WorkerStatus.__init__ at the start of the process
W_init(i) ==
    /\ processes[i].pc = "spawned"
    /\ status_dir' = [status_dir EXCEPT ![processes[i].range.worker_id] =
                         Status("initializing", NoName)]
    /\ processes' = [processes EXCEPT ![i].pc = "load_data"]
    /\ UNCHANGED <<orch, invocations, run_manifest, checkpoint_dir, output_dir,
                   kills, failures>>
    /\ OrchFrame

\* Worker.run up to process_dataframe: an empty slice completes at once
W_start(i) ==
    /\ processes[i].pc = "load_data"
    /\ IF Len(SliceOf(processes[i])) = 0
       THEN /\ status_dir' = [status_dir EXCEPT ![processes[i].range.worker_id] =
                                 Status("completed", NoName)]
            /\ processes' = [processes EXCEPT ![i] = Gone(@, "exited")]
       ELSE /\ status_dir' = [status_dir EXCEPT ![processes[i].range.worker_id] =
                                 Status("running", NoName)]
            /\ processes' = [processes EXCEPT ![i].pc = "loop"]
    /\ UNCHANGED <<orch, invocations, run_manifest, checkpoint_dir, output_dir,
                   kills, failures>>
    /\ OrchFrame

\* process_dataframe: one loop iteration; a due checkpoint opens its part
\* file (to_csv truncates it), the progress update rewrites the status
W_batch(i) ==
    /\ processes[i].pc = "loop"
    /\ LET p == processes[i]
           total_rows == Len(SliceOf(p))
           current_row_num == Min(p.results + config.batch_size, total_rows)
           due == /\ should_checkpoint(current_row_num, total_rows,
                                       config.checkpoint_interval)
                  /\ current_row_num - p.last_checkpoint_row > 0
           part == p.checkpoint_counter + 1
       IN  /\ processes' = [processes EXCEPT ![i] =
                 [p EXCEPT !.results = current_row_num,
                           !.checkpoint_counter = IF due THEN part ELSE @,
                           !.pc = IF due THEN "saving"
                                  ELSE AfterBatch(current_row_num, total_rows)]]
           /\ checkpoint_dir' =
                 IF due THEN [checkpoint_dir EXCEPT ![JobIdOf(p.range)][part] = File(<<>>)]
                 ELSE checkpoint_dir
           /\ status_dir' = [status_dir EXCEPT ![p.range.worker_id] =
                                Status("running", NoName)]
    /\ UNCHANGED <<orch, invocations, run_manifest, output_dir, kills, failures>>
    /\ OrchFrame

\* save_checkpoint returns: the rows since the last checkpoint are in the part
W_save(i) ==
    /\ processes[i].pc = "saving"
    /\ LET p == processes[i]
           slice == SliceOf(p)
           rows == SubSeq(slice, p.last_checkpoint_row + 1, p.results)
           checkpoint_data ==
               prepare_checkpoint_data([ k \in 1..Len(rows) |-> rows[k].RowID ],
                                       [ k \in 1..Len(rows) |-> rows[k].idx ], slice)
       IN  /\ checkpoint_dir' = [checkpoint_dir EXCEPT
                 ![JobIdOf(p.range)][p.checkpoint_counter] = File(checkpoint_data)]
           /\ processes' = [processes EXCEPT ![i] =
                 [p EXCEPT !.last_checkpoint_row = p.results,
                           !.pc = AfterBatch(p.results, Len(slice))]]
    /\ UNCHANGED <<orch, invocations, run_manifest, status_dir, output_dir,
                   kills, failures>>
    /\ OrchFrame

\* Worker.run after process_dataframe: merge_checkpoints(job_id, output_path),
\* set_completed(str(output_path), rows_processed), exit 0
W_completed(i) ==
    /\ processes[i].pc = "merge"
    /\ LET p == processes[i]
           name == generate_output_name(p.label, p.range.worker_id)
       IN  /\ output_dir' = [output_dir EXCEPT ![name] =
                                 merge_checkpoints(checkpoint_dir[JobIdOf(p.range)], @)]
           /\ status_dir' = [status_dir EXCEPT ![p.range.worker_id] =
                                 Status("completed", name)]
    /\ processes' = [processes EXCEPT ![i] = Gone(@, "exited")]
    /\ UNCHANGED <<orch, invocations, run_manifest, checkpoint_dir, kills, failures>>
    /\ OrchFrame

\* an exception in process_dataframe or in the merge: set_failed, exit 1
W_failed(i) ==
    /\ processes[i].pc \in {"loop", "saving", "merge"}
    /\ failures' = failures + 1
    /\ status_dir' = [status_dir EXCEPT ![processes[i].range.worker_id] =
                         Status("failed", NoName)]
    /\ processes' = [processes EXCEPT ![i] = Gone(@, "exited")]
    /\ UNCHANGED <<orch, invocations, run_manifest, checkpoint_dir, output_dir, kills>>
    /\ OrchFrame

\* the process is killed from outside (SIGKILL, out of memory)
W_killed(i) ==
    /\ Live(processes[i])
    /\ kills' = kills + 1
    /\ processes' = [processes EXCEPT ![i] = Gone(@, "killed")]
    /\ UNCHANGED <<orch, invocations, run_manifest, status_dir, checkpoint_dir,
                   output_dir, failures>>
    /\ OrchFrame

\* --- the orchestrator
\* get_all_worker_statuses: the workers of self.workers whose status file
\* can be read
ReadableStatuses(ws) == { w \in ws : status_dir[w].exists }

\* monitor_workers: all_done over the statuses that could be read
AllDone(ws) ==
    /\ ReadableStatuses(ws) # {}
    /\ \A w \in ReadableStatuses(ws) : status_dir[w].state \in {"completed", "failed"}

collect_results(ws) ==
    LET successful == { w \in ReadableStatuses(ws) : status_dir[w].state = "completed" }
    IN  [successful |-> successful,
         failed |-> { w \in ReadableStatuses(ws) : status_dir[w].state = "failed" },
         output_files |-> { status_dir[w].output_file :
                              w \in { v \in successful : status_dir[v].output_file # NoName } }]

RECURSIVE InsertRow(_, _)
InsertRow(row, sorted) ==
    IF sorted = <<>> THEN <<row>>
    ELSE IF row.RowID < sorted[1].RowID THEN <<row>> \o sorted
    ELSE <<sorted[1]>> \o InsertRow(row, Tail(sorted))

RECURSIVE SortRows(_)
\* merged_df.sort_values('RowID')
SortRows(rows) ==
    IF rows = <<>> THEN <<>> ELSE InsertRow(rows[1], SortRows(Tail(rows)))

RECURSIVE ConcatOutputs(_, _)
\* pd.concat of the files, taken in sorted name order
ConcatOutputs(dir, names) ==
    IF names = {} THEN <<>>
    ELSE LET first == CHOOSE n \in names : \A m \in names :
                         \/ n.label < m.label
                         \/ n.label = m.label /\ n.worker_id <= m.worker_id
         IN  dir[first].rows \o ConcatOutputs(dir, names \ {first})

\* merge_outputs: None when no listed file exists, else the rows of the
\* existing files sorted by RowID, written under the merged name
merge_outputs(dir, label, output_files) ==
    LET existing == { n \in output_files : dir[n].exists }
    IN  IF existing = {} THEN dir
        ELSE [dir EXCEPT ![generate_output_name(label, 0)] =
                 File(SortRows(ConcatOutputs(dir, existing)))]

Merged(dir, output_files) == \E n \in output_files : dir[n].exists

\* run_resume: an entry is skipped when its status is completed
resume_skips_nothing(entry) == FALSE

resume_skips(entry) == entry.status = "completed"

\* run_resume: entry.get("row_ranges") or self.get_row_ranges(input_file)
resume_row_ranges_whole_file(entry) ==
    << [start |-> 1, end |-> input_queue[entry.label].rows, worker_id |-> 1] >>

resume_row_ranges(entry) ==
    IF entry.row_ranges # <<>> THEN entry.row_ranges
    ELSE PlannedRanges(input_queue[entry.label])

\* the items the invocation walks through: the input queue, or the entries
\* of the manifest it loaded
ItemCount == IF orch.mode = "resume" THEN Len(orch.entries) ELSE Len(input_queue)

CurrentLabel == IF orch.mode = "resume" THEN orch.entries[orch.pos].label ELSE orch.pos

Override(f, g) ==
    [ x \in DOMAIN f \cup DOMAIN g |-> IF x \in DOMAIN g THEN g[x] ELSE f[x] ]

\* main: a normal run creates the run_id; a later invocation resumes it
\* (--resume --run-id) with the configuration of the manifest
StartOrchestrator ==
    /\ orch.mode = "none"
    /\ invocations < MaxInvocations
    /\ invocations' = invocations + 1
    /\ orch' = [NoOrchestrator EXCEPT
                   !.mode = IF invocations = 0 THEN "run" ELSE "resume",
                   !.pc = "next", !.pos = 1,
                   !.entries = IF invocations = 0 THEN <<>> ELSE run_manifest]
    /\ UNCHANGED <<run_manifest, processes, status_dir, checkpoint_dir, output_dir,
                   kills, failures>>
    /\ OrchFrame

\* process_file from clear_status_files to update_manifest_for_file: the
\* status files are deleted and the plan is written to the manifest
StartFile(label, ranges) ==
    /\ status_dir' = [ w \in WorkerIds |-> NoStatus ]
    /\ run_manifest' = update_manifest_for_file(run_manifest, label, ranges)
    /\ orch' = [orch EXCEPT !.row_ranges = ranges, !.pc = "spawn"]
    /\ UNCHANGED processes

\* process_file: spawn_worker for every planned range
SpawnWorkers ==
    /\ orch.pc = "spawn"
    /\ LET ranges == orch.row_ranges
           label == IF orch.mode = "resume" THEN orch.entries[orch.pos].label
                    ELSE orch.pos
       IN  /\ processes' = processes \o Spawn(label, ranges)
           /\ orch' = [orch EXCEPT
                  !.workers = @ \cup { ranges[i].worker_id : i \in 1..Len(ranges) },
                  !.worker_configs = Override(@,
                      [ w \in { ranges[i].worker_id : i \in 1..Len(ranges) } |->
                          [label |-> label,
                           row_range |-> CHOOSE r \in RangeSet(ranges) : r.worker_id = w] ]),
                  !.row_ranges = <<>>,
                  !.pc = "monitor"]
    /\ UNCHANGED <<invocations, run_manifest, status_dir, checkpoint_dir, output_dir,
                   kills, failures>>
    /\ OrchFrame

\* the next item of run (queue item) or run_resume (manifest entry); the
\* input file is found or not (Path(input_file).exists())
NextFile(present) ==
    /\ orch.pc = "next"
    /\ orch.pos <= ItemCount
    /\ IF orch.mode = "resume" /\ resume_skips(orch.entries[orch.pos])
       THEN /\ present
            /\ orch' = [orch EXCEPT !.pos = @ + 1]
            /\ UNCHANGED <<run_manifest, processes, status_dir>>
       ELSE IF ~present
       THEN /\ orch' = [orch EXCEPT !.pos = @ + 1]
            /\ run_manifest' =
                  IF orch.mode = "resume"
                  THEN mark_manifest_file_status(run_manifest, CurrentLabel,
                                                 "input_missing", NoName)
                  ELSE run_manifest
            /\ UNCHANGED <<processes, status_dir>>
       ELSE StartFile(CurrentLabel,
                      IF orch.mode = "resume"
                      THEN resume_row_ranges(orch.entries[orch.pos])
                      ELSE PlannedRanges(input_queue[orch.pos]))
    /\ UNCHANGED <<invocations, checkpoint_dir, output_dir, kills, failures>>
    /\ OrchFrame

\* process_file: the merge by merge.condition and the manifest status
should_merge_always(collected) == TRUE

\* process_file: should_merge by merge.condition
should_merge(collected) ==
    \/ config.merge_condition = "all_success" /\ collected.failed = {}
    \/ config.merge_condition = "any_success" /\ collected.successful # {}
    \/ config.merge_condition = "always"

\* the loop of run has ended when shutdown is requested: every queue item
\* without a manifest entry is recorded
AfterLoop(manifest, shutdown) ==
    IF shutdown /\ orch.mode = "run" THEN MarkUnprocessed(manifest, 1) ELSE manifest

MergeAndMark(label, collected, shutdown) ==
    LET merging == /\ config.auto_merge
                   /\ should_merge(collected)
                   /\ collected.output_files # {}
    IN  /\ output_dir' = IF merging
                         THEN merge_outputs(output_dir, label, collected.output_files)
                         ELSE output_dir
        /\ run_manifest' = AfterLoop(mark_manifest_file_status(run_manifest, label,
               IF collected.failed = {} THEN "completed" ELSE "completed_with_failures",
               IF merging /\ Merged(output_dir, collected.output_files)
               THEN generate_output_name(label, 0) ELSE NoName), shutdown)

\* process_file after monitor_workers saw every readable status completed
\* or failed: collect_results, the operator's choice on failure
\* (R retry, M merge the successful, S save and exit), merge, manifest
FinishFile(choice) ==
    /\ orch.pc = "monitor"
    /\ AllDone(orch.workers)
    /\ LET collected == collect_results(orch.workers)
           failed_ranges == orch.failed_ranges \o SortedSeq(collected.failed)
           asked == collected.failed # {} /\ config.prompt_on_failure
       IN  IF asked /\ choice = "R"
           THEN /\ processes' = processes \o
                      [ k \in 1..Len(failed_ranges) |->
                          NewProcess(orch.worker_configs[failed_ranges[k]].label,
                                     orch.worker_configs[failed_ranges[k]].row_range) ]
                /\ orch' = [orch EXCEPT !.workers = RangeSet(failed_ranges),
                                        !.failed_ranges = <<>>,
                                        !.results = collected,
                                        !.pc = "retry_monitor"]
                /\ UNCHANGED <<run_manifest, output_dir>>
           ELSE IF asked /\ choice = "S"
           THEN /\ orch' = [orch EXCEPT !.failed_ranges = failed_ranges,
                                        !.pos = @ + 1, !.pc = "next"]
                /\ UNCHANGED <<run_manifest, output_dir, processes>>
           ELSE /\ choice = "M"
                /\ MergeAndMark(CurrentLabel, collected, FALSE)
                /\ orch' = [orch EXCEPT !.failed_ranges = failed_ranges,
                                        !.pos = @ + 1, !.pc = "next"]
                /\ UNCHANGED processes
    /\ UNCHANGED <<invocations, status_dir, checkpoint_dir, kills, failures>>
    /\ OrchFrame

\* retry_failed_workers after its monitor_workers returned (every readable
\* status done, or shutdown requested), then the rest of process_file
RetryFinish(shutdown) ==
    /\ orch.pc = "retry_monitor"
    /\ shutdown \/ AllDone(orch.workers)
    /\ LET retried == collect_results(orch.workers)
           success == retried.failed = {}
           collected == IF success THEN retried ELSE orch.results
       IN  /\ MergeAndMark(CurrentLabel, collected, shutdown)
           /\ orch' = IF shutdown THEN NoOrchestrator
                      ELSE [orch EXCEPT !.failed_ranges = SortedSeq(retried.failed),
                                        !.pos = @ + 1, !.pc = "next"]
    /\ UNCHANGED <<invocations, processes, status_dir, checkpoint_dir, kills, failures>>
    /\ OrchFrame

\* SIGINT/SIGTERM while monitoring: process_file returns 'detached', the
\* loop over the items breaks; run then records the unprocessed queue items
Detach ==
    /\ orch.pc = "monitor"
    /\ run_manifest' = IF orch.mode = "run" THEN MarkUnprocessed(run_manifest, 1)
                       ELSE run_manifest
    /\ orch' = NoOrchestrator
    /\ UNCHANGED <<invocations, processes, status_dir, checkpoint_dir, output_dir,
                   kills, failures>>
    /\ OrchFrame

\* the loop over the items ended
Finish ==
    /\ orch.pc = "next"
    /\ orch.pos > ItemCount
    /\ run_manifest' = IF orch.mode = "run" THEN MarkUnprocessed(run_manifest, 1)
                       ELSE run_manifest
    /\ orch' = NoOrchestrator
    /\ UNCHANGED <<invocations, processes, status_dir, checkpoint_dir, output_dir,
                   kills, failures>>
    /\ OrchFrame

\* the step stays within a bound on the processes of the run, the ranges
\* it has planned to spawn included
Room(bound) ==
    /\ Len(processes) + Len(orch'.row_ranges) <= bound
    /\ Len(processes') <= bound

OrchNext ==
    \/ StartOrchestrator
    \/ \E present \in BOOLEAN : NextFile(present) /\ Room(MaxProcesses)
    \/ SpawnWorkers
    \/ \E choice \in {"R", "M", "S"} : FinishFile(choice) /\ Room(MaxProcesses)
    \/ \E shutdown \in BOOLEAN : RetryFinish(shutdown)
    \/ Detach
    \/ Finish
    \/ \E i \in 1..Len(processes) :
          \/ W_init(i)
          \/ W_start(i)
          \/ W_batch(i)
          \/ W_save(i)
          \/ W_completed(i)
          \/ failures < MaxFailures /\ W_failed(i)
          \/ kills < MaxKills /\ W_killed(i)

OrchSpec == OrchInit /\ [][OrchNext]_vars

\* ------------------------------------------------------ claims about one run_id
\* the RowID column of a file's rows
RowIDColumn(rows) == [ k \in 1..Len(rows) |-> rows[k].RowID ]

\* a worker of the file was killed in the first invocation and the resume
\* invocation respawned the file's workers, ended, and the file's entry is
\* completed; no worker raised an exception
ResumedAfterKill(l) ==
    /\ invocations = 2 /\ orch.mode = "none"
    /\ kills = 1 /\ failures = 0
    /\ \E i \in 1..Len(processes) :
          /\ processes[i].label = l /\ processes[i].inv = 1
          /\ processes[i].pc = "killed"
    /\ \E i \in 1..Len(processes) : processes[i].label = l /\ processes[i].inv = 2
    /\ \E e \in 1..Len(run_manifest) :
          run_manifest[e].label = l /\ run_manifest[e].status = "completed"

\* C11: after a single worker was killed and the run restarted with
\* --resume, the merged output of the file holds the RowIDs of the run
\* without the kill (every RowID of the file), each exactly once
C11_ResumeAfterKillSameOutput ==
    \A l \in Labels :
        ResumedAfterKill(l) =>
            /\ output_dir[generate_output_name(l, 0)].exists
            /\ RowIDColumn(output_dir[generate_output_name(l, 0)].rows)
                  = QueueFile(input_queue[l])

AllCompleted(entries) == \A e \in 1..Len(entries) : entries[e].status = "completed"

\* C12: a --resume invocation on a manifest whose entries are all completed
\* spawns no worker, deletes no status file, writes no checkpoint or output
\* file and leaves the manifest unchanged
C12_ResumeOfCompletedRunIsNoOp ==
    [][ (/\ orch' # orch
         /\ orch.mode = "resume" \/ orch'.mode = "resume"
         /\ AllCompleted(IF orch.mode = "resume" THEN orch.entries ELSE orch'.entries))
        => UNCHANGED <<processes, status_dir, checkpoint_dir, output_dir, run_manifest>> ]_vars

C12_Witness ==
    /\ orch.mode = "resume"
    /\ Len(orch.entries) >= 1
    /\ AllCompleted(orch.entries)
    /\ orch.pos > Len(orch.entries)

\* the resume invocation is at a manifest entry and takes a step for it:
\* it skips it, or plans it, or spawns its workers
AtResumeEntry ==
    /\ orch.mode = "resume" /\ orch.pc \in {"next", "spawn"}
    /\ orch.pos <= Len(orch.entries)
    /\ orch' # orch

SpawnedByStep == SubSeq(processes', Len(processes) + 1, Len(processes'))

\* C13 as stated: in resume mode the workers spawned for an entry that is
\* not completed have exactly the recorded row ranges (start, end,
\* worker_id); no worker is spawned for a completed entry
C13_ResumeUsesRecordedRanges ==
    [][ AtResumeEntry =>
          LET entry == orch.entries[orch.pos]
          IN  /\ entry.status = "completed" =>
                    SpawnedByStep = <<>> /\ orch'.pc # "spawn"
              /\ SpawnedByStep # <<>> =>
                    /\ \A k \in 1..Len(SpawnedByStep) : SpawnedByStep[k].label = entry.label
                    /\ { SpawnedByStep[k].range : k \in 1..Len(SpawnedByStep) }
                          = RangeSet(entry.row_ranges) ]_vars

\* C13 amended: the recorded ranges are used when the entry records at
\* least one; an entry that records none (a queue item the earlier
\* invocation never reached) is planned afresh by get_row_ranges; no worker
\* is spawned for a completed entry
C13_ResumeUsesRecordedOrPlannedRanges ==
    [][ AtResumeEntry =>
          LET entry == orch.entries[orch.pos]
          IN  /\ entry.status = "completed" =>
                    SpawnedByStep = <<>> /\ orch'.pc # "spawn"
              /\ SpawnedByStep # <<>> =>
                    /\ \A k \in 1..Len(SpawnedByStep) : SpawnedByStep[k].label = entry.label
                    /\ { SpawnedByStep[k].range : k \in 1..Len(SpawnedByStep) }
                          = IF entry.row_ranges # <<>>
                            THEN RangeSet(entry.row_ranges)
                            ELSE RangeSet(PlannedRanges(input_queue[entry.label])) ]_vars

C13_Witness ==
    /\ orch.mode = "resume" /\ orch.pc = "monitor"
    /\ orch.entries[orch.pos].status # "completed"
    /\ Len(orch.entries[orch.pos].row_ranges) = 2
    /\ \E i \in 1..Len(processes) :
          /\ processes[i].inv = 2
          /\ processes[i].label = orch.entries[orch.pos].label
          /\ processes[i].range = orch.entries[orch.pos].row_ranges[2]

\* C19: never two live worker processes that write the same status file,
\* the same job_id checkpoint namespace or the same per-range output file
C19_SingleWriter ==
    \A i, j \in 1..Len(processes) :
        (i # j /\ Live(processes[i]) /\ Live(processes[j])) =>
            /\ processes[i].range.worker_id # processes[j].range.worker_id
            /\ JobIdOf(processes[i].range) # JobIdOf(processes[j].range)
            /\ generate_output_name(processes[i].label, processes[i].range.worker_id)
                  # generate_output_name(processes[j].label, processes[j].range.worker_id)

\* C20: within one run two workers that process different queue entries,
\* or different ranges, never use the same job_id
C20_JobIdUniquePerFileAndRange ==
    \A i, j \in 1..Len(processes) :
        (\/ processes[i].label # processes[j].label
         \/ processes[i].range # processes[j].range)
            => JobIdOf(processes[i].range) # JobIdOf(processes[j].range)

\* ------------------------------------------------- one call of Orchestrator.run
\* the configurations of a run: merge.condition and
\* error_handling.max_worker_retries vary; the operator is asked on failure
\* and auto_merge is on (the defaults)
RunConfigs ==
    [ workers : 1..MaxSpawn, batch_size : 1..MaxRunBatch,
      checkpoint_interval : 1..MaxRunInterval,
      merge_condition : {"all_success", "any_success", "always"},
      prompt_on_failure : {TRUE},
      auto_merge : {TRUE}, max_worker_retries : 0..MaxRetries ]

RECURSIVE QueueRows(_)
QueueRows(queue) ==
    IF queue = <<>> THEN 0 ELSE queue[1].rows + QueueRows(Tail(queue))

\* the input queues of a run
RunQueues == { queue \in Queues : QueueRows(queue) <= MaxRunRows }

\* main has constructed the orchestrator for a new run_id and calls run()
RunInit ==
    /\ input_file = <<>> /\ has_rowid = TRUE
    /\ parallelization = [enabled |-> FALSE, split_strategy |-> "auto",
                          workers |-> 1, manual_ranges |-> <<>>]
    /\ row_ranges = <<>> /\ plan_pc = "run" /\ loaded = <<>>
    /\ JobIdle
    /\ ToolIdle
    /\ WorkerIdle
    /\ input_queue \in RunQueues
    /\ config \in RunConfigs
    /\ orch = [NoOrchestrator EXCEPT !.mode = "run", !.pc = "next", !.pos = 1]
    /\ invocations = 1
    /\ run_manifest = <<>>
    /\ processes = <<>>
    /\ status_dir = [ w \in WorkerIds |-> NoStatus ]
    /\ checkpoint_dir = [ j \in RunJobIds |-> [ p \in PartNumbers |-> NoFile ] ]
    /\ output_dir = [ n \in OutputNames |-> NoFile ]
    /\ kills = 0 /\ failures = 0

RunNext ==
    \/ \E present \in BOOLEAN : NextFile(present) /\ Room(MaxRunProcesses)
    \/ SpawnWorkers
    \/ \E choice \in {"R", "M", "S"} : FinishFile(choice) /\ Room(MaxRunProcesses)
    \/ \E shutdown \in BOOLEAN : RetryFinish(shutdown)
    \/ Detach
    \/ Finish
    \/ \E i \in 1..Len(processes) :
          \/ W_init(i)
          \/ W_start(i)
          \/ W_batch(i)
          \/ W_save(i)
          \/ W_completed(i)
          \/ failures < MaxRunFailures /\ W_failed(i)

RunSpec == RunInit /\ [][RunNext]_vars

\* ------------------------------------------- claims about one call of run
\* a step of the orchestrator (every step of it moves its position or its
\* bookkeeping; a worker's step leaves orch alone)
OrchestratorStep == orch' # orch

\* C21: no step of the orchestrator creates, modifies or deletes a worker
\* status file; only the owning worker changes it
C21_OrchestratorLeavesStatusFiles ==
    [][ OrchestratorStep => status_dir' = status_dir ]_vars

\* the status the manifest records for a label ("none" without an entry)
ManifestStatus(manifest, label) ==
    IF label \in ManifestLabels(manifest)
    THEN (CHOOSE e \in RangeSet(manifest) : e.label = label).status
    ELSE "none"

\* the operator's interrupt ends the invocation while it supervises workers
InterruptedSupervision ==
    /\ orch.pc \in {"monitor", "retry_monitor"}
    /\ orch'.mode = "none"

\* C22: an interrupt during supervision ends the invocation without
\* terminating a worker, without merging, and with the manifest status of
\* the file in progress still pending
C22_InterruptLeavesFilePending ==
    [][ InterruptedSupervision =>
          /\ processes' = processes
          /\ output_dir' = output_dir
          /\ ManifestStatus(run_manifest', CurrentLabel) = "pending" ]_vars

\* the manifest entry of a label
ManifestEntry(manifest, label) == CHOOSE e \in RangeSet(manifest) : e.label = label

\* C23: when the workers of a file are spawned, the manifest already holds
\* the file's entry with status pending, the planned row_ranges (the ranges
\* the workers are spawned with) and one expected output name per range
C23_PlanCommittedBeforeSpawn ==
    [][ (orch.pc = "spawn" /\ SpawnedByStep # <<>>) =>
          /\ CurrentLabel \in ManifestLabels(run_manifest)
          /\ LET entry == ManifestEntry(run_manifest, CurrentLabel)
             IN  /\ entry.status = "pending"
                 /\ entry.row_ranges = [ k \in 1..Len(SpawnedByStep) |-> SpawnedByStep[k].range ]
                 /\ \A k \in 1..Len(SpawnedByStep) : SpawnedByStep[k].label = CurrentLabel
                 /\ entry.expected_outputs =
                       [ k \in 1..Len(entry.row_ranges) |->
                           generate_output_name(CurrentLabel, entry.row_ranges[k].worker_id) ] ]_vars

\* the workers of the second file of the queue have been spawned
C23_Witness ==
    /\ orch.mode = "run" /\ orch.pc = "monitor" /\ orch.pos = 2
    /\ Len(run_manifest) = 2
    /\ Len(run_manifest[2].row_ranges) = 2
    /\ \E i \in 1..Len(processes) : processes[i].label = 2 /\ processes[i].range.worker_id = 2

\* the workers whose status file says failed
FailedWorkers == { w \in WorkerIds : status_dir[w].exists /\ status_dir[w].state = "failed" }

\* the operator answers R: retry_failed_workers respawns
RetryStep == orch.pc = "monitor" /\ orch'.pc = "retry_monitor"

\* C24: a retry respawns exactly the workers that failed for the file in the
\* supervision round before it, one process each, with the file and the
\* range of the original spawn
C24_RetryRespawnsExactlyFailed ==
    [][ RetryStep =>
          /\ Len(SpawnedByStep) = Cardinality(FailedWorkers)
          /\ { SpawnedByStep[k].range.worker_id : k \in 1..Len(SpawnedByStep) } = FailedWorkers
          /\ \A k \in 1..Len(SpawnedByStep) :
                /\ SpawnedByStep[k].label = CurrentLabel
                /\ SpawnedByStep[k].range
                      \in RangeSet(ManifestEntry(run_manifest, CurrentLabel).row_ranges) ]_vars

\* the processes spawned for a worker of a file: its first spawn and its
\* respawns
SpawnsOf(l, w) ==
    { i \in 1..Len(processes) : processes[i].label = l /\ processes[i].range.worker_id = w }

\* C25: within one call of run no worker of a file is respawned more than
\* error_handling.max_worker_retries times
C25_RetriesBounded ==
    \A l \in Labels : \A w \in WorkerIds :
        Cardinality(SpawnsOf(l, w)) <= 1 + config.max_worker_retries

\* the worker ids planned for a file, from its manifest entry
PlannedWorkers(label) ==
    { r.worker_id : r \in RangeSet(ManifestEntry(run_manifest, label).row_ranges) }

\* the per-range outputs the completed workers of a set report
OutputsOf(ws) ==
    { status_dir[w].output_file :
        w \in { v \in ws : /\ status_dir[v].exists
                           /\ status_dir[v].state = "completed"
                           /\ status_dir[v].output_file # NoName } }

\* the retry round ends (no interrupt) with every planned worker of the
\* file completed: those of the first round and those retried
RetrySucceeded ==
    /\ orch.pc = "retry_monitor" /\ orch'.pc = "next"
    /\ \A w \in PlannedWorkers(CurrentLabel) :
          status_dir[w].exists /\ status_dir[w].state = "completed"

\* C26: after a retry in which every retried worker completed, the merged
\* output is built from the per-range outputs of all workers planned for
\* the file and the manifest entry is completed
C26_MergeAfterRetryCoversAllWorkers ==
    [][ RetrySucceeded =>
          /\ ManifestStatus(run_manifest', CurrentLabel) = "completed"
          /\ output_dir'[generate_output_name(CurrentLabel, 0)] =
                File(SortRows(ConcatOutputs(output_dir,
                                            OutputsOf(PlannedWorkers(CurrentLabel))))) ]_vars

\* the first supervision round of a file ended with failed workers and at
\* least one successful worker that wrote an output, and the operator
\* answered M: process_file goes on to the merge block and marks the entry
MergeChosen ==
    /\ orch.pc = "monitor" /\ orch'.pc = "next"
    /\ FailedWorkers \cap orch.workers # {}
    /\ OutputsOf(orch.workers) # {}
    /\ ManifestStatus(run_manifest', CurrentLabel) = "completed_with_failures"

\* C27: on the answer M the orchestrator writes a merged output built from
\* the outputs of the successful workers
C27_MergeSkipsFailedRanges ==
    [][ MergeChosen =>
          output_dir'[generate_output_name(CurrentLabel, 0)] =
              File(SortRows(ConcatOutputs(output_dir, OutputsOf(orch.workers)))) ]_vars

\* process_file reaches its merge block in this step: after the first
\* supervision round (no failure, no prompt, or the answer M) or after the
\* retry round
AtMergeBlock ==
    \/ /\ orch.pc = "monitor" /\ orch'.pc = "next"
       /\ ManifestStatus(run_manifest', CurrentLabel) # "pending"
    \/ orch.pc = "retry_monitor" /\ orch' # orch

\* the results process_file holds at its merge block: those of the first
\* round, or those re-collected after a retry that succeeded
ResultsAtMerge ==
    IF orch.pc = "retry_monitor" /\ collect_results(orch.workers).failed = {}
    THEN collect_results(orch.workers)
    ELSE IF orch.pc = "retry_monitor" THEN orch.results
    ELSE collect_results(orch.workers)

MergedWritten == output_dir' # output_dir

MarkedCompleted ==
    /\ orch.pc \in {"monitor", "retry_monitor"}
    /\ ManifestStatus(run_manifest, CurrentLabel) # "completed"
    /\ ManifestStatus(run_manifest', CurrentLabel) = "completed"

\* C29: an entry is set to completed only when the worker of every planned
\* range of the file has reached state completed, and it then records the
\* merged output
C29_CompletedMeansAllRangesCompleted ==
    [][ MarkedCompleted =>
          /\ \A w \in PlannedWorkers(CurrentLabel) :
                status_dir[w].exists /\ status_dir[w].state = "completed"
          /\ ManifestEntry(run_manifest', CurrentLabel).merged_output
                = generate_output_name(CurrentLabel, 0) ]_vars

\* the invocation passes over an item whose input file does not exist
MissingInputStep ==
    /\ orch.pc = "next" /\ orch.pos <= ItemCount
    /\ orch'.pc = "next" /\ orch'.pos = orch.pos + 1
    /\ ~(orch.mode = "resume" /\ resume_skips(orch.entries[orch.pos]))

\* C30: an item whose input file does not exist gets the manifest status
\* input_missing, no worker is spawned for it, and the invocation goes on
\* to the next item
C30_MissingInputMarked ==
    [][ MissingInputStep =>
          /\ ManifestStatus(run_manifest', CurrentLabel) = "input_missing"
          /\ processes' = processes ]_vars

\* ------------------------------------------------ main of O_orchestrator.py
\* build_run_id: project, version, model tag and the time to the second;
\* project and model tag are those of the one configuration file
build_run_id(version, timestamp) == [version |-> version, ts |-> timestamp]

\* reset_run_context, the orchestrator's fields: the run_id given or a new one
reset_run_context(c, id, now) ==
    LET chosen == IF id # NoRunId THEN id ELSE build_run_id(c.version, now)
    IN  [c EXCEPT !.run_id = chosen, !.scoped = @ \cup {chosen}]

\* reset_run_context, the file system: the directories are made
\* (exist_ok) and the manifest is written unless there is one
make_run_dirs(dirs, c) ==
    IF c.run_id \in DOMAIN dirs THEN dirs
    ELSE dirs @@ (c.run_id :> [workers |-> {}, version |-> c.version])

\* sorted(candidates, reverse=True)[0]: the directory name that sorts last
\* ("v1" sorts before "v2", then the timestamps decide)
LatestName(names) ==
    CHOOSE id \in names : \A other \in names :
        \/ other.version = "v1" /\ id.version = "v2"
        \/ other.version = id.version /\ other.ts <= id.ts

\* main starts. The base directories hold, for each earlier run
\* (project.version "v1", started at a second of 1..MaxEarlier), the worker
\* status files it left and the manifest with the version it was created
\* with; on the command line --run-id names an earlier run or a run that
\* never was
MainInit ==
    /\ input_file = <<>> /\ has_rowid = TRUE
    /\ parallelization = [enabled |-> FALSE, split_strategy |-> "auto",
                          workers |-> 1, manual_ranges |-> <<>>]
    /\ row_ranges = <<>> /\ plan_pc = "main" /\ loaded = <<>>
    /\ JobIdle
    /\ WorkerIdle
    /\ OrchIdle
    /\ clock = MaxEarlier + 1
    /\ LET ids == { build_run_id("v1", t) : t \in 1..MaxEarlier }
       IN  run_dirs \in UNION { [ S -> [workers : SUBSET (1..MaxMonitored),
                                        version : {"v1"}] ] : S \in SUBSET ids }
    /\ pause_flags \in SUBSET DOMAIN run_dirs
    /\ \E a \in [ run_id : {NoRunId, build_run_id("v2", 1)}
                            \cup { build_run_id("v1", t) : t \in 1..MaxEarlier },
                  version : {"none", "v1", "v2"},
                  summary : BOOLEAN, pause_run : BOOLEAN, resume_run : BOOLEAN,
                  resume : BOOLEAN, dry_run : BOOLEAN, monitor_only : BOOLEAN ] :
          cli = [NoInvocation EXCEPT !.pc = "start", !.args = a]
    /\ engine = NoEngine

MainFrame == UNCHANGED <<input_file, has_rowid, planVars, jobVars, statusVars, orchVars,
                         engine>>

\* Orchestrator(args.config, run_id=args.run_id); project.version is "v1"
Construct ==
    /\ cli.pc = "start"
    /\ cli' = [reset_run_context([cli EXCEPT !.version = "v1"],
                                 cli.args.run_id, clock)
                 EXCEPT !.pc = "overrides"]
    /\ run_dirs' = make_run_dirs(run_dirs, cli')
    /\ UNCHANGED <<clock, pause_flags>>
    /\ MainFrame

\* main: the --version override and the rebuilding of the run context
Overrides ==
    /\ cli.pc = "overrides"
    /\ LET versioned == IF cli.args.version # "none"
                        THEN [cli EXCEPT !.version = cli.args.version] ELSE cli
           rebuilt == IF cli.args.version # "none" /\ cli.args.run_id = NoRunId
                      THEN reset_run_context(versioned, NoRunId, clock)
                      ELSE IF cli.args.run_id # NoRunId
                      THEN reset_run_context(versioned, cli.args.run_id, clock)
                      ELSE versioned
       IN  /\ cli' = [rebuilt EXCEPT !.pc = "dispatch"]
           /\ run_dirs' = make_run_dirs(run_dirs, rebuilt)
    /\ UNCHANGED <<clock, pause_flags>>
    /\ MainFrame

\* main after the overrides: the first of --summary, --pause-run,
\* --resume-run, --resume, --dry-run, --monitor-only that was given decides,
\* else the normal run. The first four need --run-id. --monitor-only takes
\* the latest run folder when no run_id was given and the status directory
\* does not exist, takes the workers of the worker_*.json files, and calls
\* monitor_workers if there are any
Dispatch ==
    /\ cli.pc = "dispatch"
    /\ LET a == cli.args
           needs_id == a.summary \/ a.pause_run \/ a.resume_run \/ a.resume
           return(c, what) == [c EXCEPT !.pc = "done", !.outcome = what]
           selected ==
               IF /\ a.run_id = NoRunId
                  /\ cli.run_id \notin DOMAIN run_dirs
                  /\ DOMAIN run_dirs # {}
               THEN reset_run_context(cli, LatestName(DOMAIN run_dirs), clock)
               ELSE cli
           found == IF selected.run_id \in DOMAIN run_dirs
                    THEN run_dirs[selected.run_id].workers ELSE {}
       IN  IF needs_id /\ a.run_id = NoRunId
           THEN /\ cli' = return(cli, "requires_run_id")
                /\ UNCHANGED <<run_dirs, pause_flags>>
           ELSE IF a.summary
           THEN /\ cli' = return(cli, "summary")
                /\ UNCHANGED <<run_dirs, pause_flags>>
           ELSE IF a.pause_run
           THEN /\ cli' = return(cli, "paused")
                /\ pause_flags' = pause_flags \cup {cli.run_id}
                /\ UNCHANGED run_dirs
           ELSE IF a.resume_run
           THEN /\ cli' = return(cli, IF cli.run_id \in pause_flags
                                      THEN "unpaused" ELSE "no_flag")
                /\ pause_flags' = pause_flags \ {cli.run_id}
                /\ UNCHANGED run_dirs
           ELSE IF a.resume
           THEN /\ cli' = return(reset_run_context(
                                   [cli EXCEPT !.version = run_dirs[cli.run_id].version],
                                   a.run_id, clock), "run_resume")
                /\ UNCHANGED <<run_dirs, pause_flags>>
           ELSE IF a.dry_run
           THEN /\ cli' = return(cli, "dry_run")
                /\ UNCHANGED <<run_dirs, pause_flags>>
           ELSE IF a.monitor_only
           THEN /\ cli' = [selected EXCEPT
                             !.workers = found,
                             !.pc = IF found # {} THEN "monitor" ELSE "done",
                             !.outcome = IF found # {} THEN "monitoring"
                                         ELSE "no_workers"]
                /\ run_dirs' = make_run_dirs(run_dirs, selected)
                /\ UNCHANGED pause_flags
           ELSE /\ cli' = return(cli, "run")
                /\ UNCHANGED <<run_dirs, pause_flags>>
    /\ UNCHANGED clock
    /\ MainFrame

\* monitor_workers returned to main
MonitorReturn ==
    /\ cli.pc = "monitor"
    /\ cli' = [cli EXCEPT !.pc = "done", !.outcome = "monitored"]
    /\ UNCHANGED <<clock, run_dirs, pause_flags>>
    /\ MainFrame

\* a second passes while main runs
Tick ==
    /\ cli.pc \in {"start", "overrides", "dispatch", "monitor"}
    /\ clock' = clock + 1
    /\ UNCHANGED <<run_dirs, pause_flags, cli>>
    /\ MainFrame

MainNext ==
    \/ Construct
    \/ Overrides
    \/ Dispatch
    \/ MonitorReturn
    \/ clock < MaxClock /\ Tick

MainSpec == MainInit /\ [][MainNext]_vars

\* ------------------------------------------------------ claims about main
\* the runs that existed before this invocation made any directory
RunsBefore == DOMAIN run_dirs \ cli.scoped

MostRecentRun == CHOOSE id \in RunsBefore : \A other \in RunsBefore : other.ts <= id.ts

\* the monitor-only branch of main is taken, without --run-id
MonitorOnlyStep ==
    /\ cli.pc = "dispatch" /\ cli'.pc # "dispatch"
    /\ cli'.outcome \in {"monitoring", "no_workers"}
    /\ cli.args.run_id = NoRunId

\* C31: monitor-only mode without --run-id attaches to the most recent
\* existing run: when that run has worker status files, the worker set is
\* seeded from them and the supervision loop runs over them
C31_MonitorOnlyAttachesToLatestRun ==
    [][ /\ MonitorOnlyStep
        /\ RunsBefore # {}
        /\ run_dirs[MostRecentRun].workers # {}
        => /\ cli'.workers = run_dirs[MostRecentRun].workers
           /\ cli'.pc = "monitor" ]_vars

\* C32: within one invocation the run_id is generated once and never
\* changed: the directories and manifests the invocation makes are all
\* those of one run_id
C32_RunIdGeneratedOnce ==
    Cardinality(cli.scoped) <= 1

\* ------------------------------- Processor.process_dataframe and the model
\* columns_to_code is [first, second] (no Comparative_Mention or
\* Abandonment_Mentioned column, no validation rule). What one client.chat
\* call for a group of n rows can give: an exception (no connection, text
\* that is no JSON, an array of things that are no objects), one JSON object,
\* or a JSON array of 0..n+1 objects. "MISSING" stands for a key left out
Responses(n) ==
    LET ModelObjects == [ first : {"Y", "N", "NOT_APPLICABLE", "MISSING"},
                          second : {"X", "-", "MISSING"} ]
        nothing == {[first |-> "MISSING", second |-> "MISSING"]}
    IN  [ kind : {"fail"}, len : {0}, obj : nothing ]
        \cup [ kind : {"object"}, len : {1}, obj : ModelObjects ]
        \cup [ kind : {"array"}, len : 1..(n + 1), obj : ModelObjects ]
        \cup [ kind : {"array"}, len : {0}, obj : nothing ]

\* validate_processed_data: with the first column N every other column that
\* is neither '-' nor ERROR_MISSING_KEY becomes '-'; steps 2 and 3 change
\* nothing for these columns
validate_processed_data(processed_data) ==
    IF processed_data.first = "N"
    THEN IF processed_data.second \notin {"-", "ERROR_MISSING_KEY"}
         THEN [processed_data EXCEPT !.second = "-"]
         ELSE processed_data
    ELSE processed_data

\* one parsed object to one record: not_applicable_defaults for
\* NOT_APPLICABLE, else result.get(col, "ERROR_MISSING_KEY") per column,
\* validated. pos tells which element (or row) the record was made from
process_result(obj, pos) ==
    LET get(v) == IF v = "MISSING" THEN "ERROR_MISSING_KEY" ELSE v
    IN  IF obj.first = "NOT_APPLICABLE"
        THEN [source |-> "not_applicable_defaults", pos |-> pos,
              first |-> "N", second |-> "-"]
        ELSE [source |-> "model", pos |-> pos] @@
             validate_processed_data([first |-> get(obj.first),
                                      second |-> get(obj.second)])

\* process_batch on a parsed array of len objects: padded with
\* ERROR_BATCH_MISMATCH objects up to batch_size, cut at batch_size, then
\* object by object
reconcile(len, obj, group_size) ==
    [ k \in 1..group_size |->
        IF k <= len THEN process_result(obj, k)
        ELSE [process_result([first |-> "ERROR_BATCH_MISMATCH",
                              second |-> "ERROR_BATCH_MISMATCH"], k)
                EXCEPT !.source = "mismatch"] ]

\* the except branch gives up after the first failure
last_attempt_at_once(attempt_index, retries) == TRUE

\* the except branch: attempt < self.retries - 1 tries again
last_attempt(attempt_index, retries) == ~(attempt_index < retries - 1)

\* the pause probe looks at nothing
should_pause_never == FALSE

\* Worker.should_pause: the pause.flag of the worker's run exists
should_pause == build_run_id("v1", 1) \in pause_flags

EngineInit ==
    /\ input_file = <<>> /\ has_rowid = TRUE
    /\ parallelization = [enabled |-> FALSE, split_strategy |-> "auto",
                          workers |-> 1, manual_ranges |-> <<>>]
    /\ row_ranges = <<>> /\ plan_pc = "engine" /\ loaded = <<>>
    /\ JobIdle
    /\ WorkerIdle
    /\ OrchIdle
    /\ clock = 0
    /\ run_dirs = (build_run_id("v1", 1) :> [workers |-> {1}, version |-> "v1"])
    /\ pause_flags \in SUBSET {build_run_id("v1", 1)}
    /\ cli = NoInvocation
    /\ \E rows \in 1..MaxEngineRows, b \in 1..MaxEngineBatch, r \in 0..MaxTries :
          engine = [NoEngine EXCEPT !.pc = "probe", !.total_rows = rows,
                                    !.batch_size = b, !.retries = r]

EngineFrame == UNCHANGED <<input_file, has_rowid, planVars, jobVars, statusVars, orchVars,
                           clock, run_dirs, cli>>

\* main --pause-run / --resume-run for the worker's run, from another terminal
SetPause(flag) ==
    /\ flag # (build_run_id("v1", 1) \in pause_flags)
    /\ pause_flags' = IF flag THEN pause_flags \cup {build_run_id("v1", 1)}
                      ELSE pause_flags \ {build_run_id("v1", 1)}
    /\ UNCHANGED engine
    /\ EngineFrame

\* while pause_event(): time.sleep(1)
Probe ==
    /\ engine.pc = "probe"
    /\ engine' = IF should_pause
                 THEN [engine EXCEPT !.probed = "paused"]
                 ELSE [engine EXCEPT !.pc = "go",
                          !.probed = IF @ = "paused" THEN "resumed" ELSE "clear"]
    /\ UNCHANGED pause_flags
    /\ EngineFrame

\* process_single_row(row) if batch_size == 1, else process_batch(batch_df);
\* with retries 0 the for loop of either is empty and None is returned
BeginBatch ==
    /\ engine.pc = "go"
    /\ LET n == Min(engine.batch_size, engine.total_rows - engine.i)
           begun == [engine EXCEPT !.n = n, !.attempt = 0, !.row = 0,
                                   !.fallback_results = <<>>, !.calls = <<>>]
           nothing == [source |-> "none", pos |-> 1, first |-> "none", second |-> "none"]
       IN  engine' =
             IF engine.retries = 0
             THEN [begun EXCEPT !.pc = "extend",
                      !.batch_results =
                          IF engine.batch_size = 1
                          THEN [is_none |-> FALSE, records |-> <<nothing>>]
                          ELSE [is_none |-> TRUE, records |-> <<>>]]
             ELSE [begun EXCEPT !.pc = IF engine.batch_size = 1 THEN "single" ELSE "batch",
                                !.row = IF engine.batch_size = 1 THEN 1 ELSE 0]
    /\ UNCHANGED pause_flags
    /\ EngineFrame

\* process_batch: one attempt, the model called for the whole group
ChatBatch(response) ==
    /\ engine.pc = "batch"
    /\ LET called == [engine EXCEPT !.calls = Append(@, [kind |-> "batch", row |-> 0,
                                                         ok |-> response.kind # "fail",
                                                         len |-> response.len])]
       IN  engine' =
             IF response.kind # "fail"
             THEN [called EXCEPT !.pc = "extend",
                      !.batch_results =
                          [is_none |-> FALSE,
                           records |-> reconcile(response.len, response.obj, engine.n)]]
             ELSE IF last_attempt(engine.attempt, engine.retries)
             THEN [called EXCEPT !.pc = "fallback", !.row = 1, !.attempt = 0]
             ELSE [called EXCEPT !.attempt = @ + 1]
    /\ UNCHANGED pause_flags
    /\ EngineFrame

\* process_single_row: one attempt, the model called for one row (the only
\* row of a group when batch_size is 1, else a row of the fallback)
ChatRow(response) ==
    /\ engine.pc \in {"single", "fallback"}
    /\ response.kind \in {"fail", "object"}
    /\ LET called == [engine EXCEPT !.calls = Append(@, [kind |-> "row", row |-> engine.row,
                                                         ok |-> response.kind # "fail",
                                                         len |-> response.len])]
           retry == response.kind = "fail" /\ ~last_attempt(engine.attempt, engine.retries)
           result == IF response.kind = "fail"
                     THEN [source |-> "all_retries_failed", pos |-> engine.row,
                           first |-> "ERROR_ALL_RETRIES_FAILED",
                           second |-> "ERROR_ALL_RETRIES_FAILED"]
                     ELSE process_result(response.obj, engine.row)
           collected == Append(engine.fallback_results, result)
       IN  engine' =
             IF retry THEN [called EXCEPT !.attempt = @ + 1]
             ELSE IF engine.row = engine.n
             THEN [called EXCEPT !.pc = "extend", !.fallback_results = <<>>,
                      !.batch_results = [is_none |-> FALSE, records |-> collected]]
             ELSE [called EXCEPT !.row = @ + 1, !.attempt = 0,
                                 !.fallback_results = collected]
    /\ UNCHANGED pause_flags
    /\ EngineFrame

\* results.extend(batch_results), a TypeError for None, and the next round
\* of the for loop
Extend ==
    /\ engine.pc = "extend"
    /\ engine' =
         IF engine.batch_results.is_none THEN [engine EXCEPT !.pc = "raised"]
         ELSE [engine EXCEPT
                 !.i = @ + engine.batch_size,
                 !.pc = IF engine.i + engine.batch_size >= engine.total_rows
                        THEN "done" ELSE "probe",
                 !.probed = "none"]
    /\ UNCHANGED pause_flags
    /\ EngineFrame

EngineNext ==
    \/ \E flag \in BOOLEAN : SetPause(flag)
    \/ Probe
    \/ BeginBatch
    \/ \E response \in Responses(engine.n) : ChatBatch(response)
    \/ \E response \in Responses(engine.n) : ChatRow(response)
    \/ Extend

EngineSpec == EngineInit /\ [][EngineNext]_vars

\* ------------------------------------------ claims about the processor
\* pause.flag of the worker's run exists
PauseFileExists == build_run_id("v1", 1) \in pause_flags

\* a step in which a batch begins
BatchBegins == engine.pc = "go" /\ engine'.pc # "go"

\* the worker is inside a batch: process_batch or process_single_row runs
InsideBatch(e) == e.pc \in {"batch", "single", "fallback"}

\* C33 as stated: every batch start follows a probe that returned false, and
\* no new batch begins while the pause file exists
C33_NoBatchBeginsWhilePaused ==
    [][ BatchBegins => engine.probed \in {"clear", "resumed"} /\ ~PauseFileExists ]_vars

\* C33, amended: a batch begins only when the latest step of the worker was
\* a probe that returned false, the probe returns false only when there is
\* no pause file at that moment, and while a batch runs (its retries and its
\* per-row fallback included) no probe is made
C33_BatchBeginsAfterClearProbe ==
    [][ /\ BatchBegins => engine.probed \in {"clear", "resumed"}
        /\ engine.pc = "probe" /\ engine'.pc = "go" => ~PauseFileExists
        /\ engine' # engine /\ engine'.pc = "go" => engine.pc = "probe"
        /\ InsideBatch(engine) => engine'.probed = engine.probed ]_vars

\* a second batch runs its fallback after a pause that was lifted
C33_Witness ==
    /\ engine.pc = "fallback" /\ engine.i > 0 /\ engine.probed = "resumed"

\* the latest call of the model for the current group
LastCall == engine.calls[Len(engine.calls)]

\* C34: process_batch on a group of n rows returns exactly n records in input
\* order, whatever the model returns and for every retries >= 0; of a parsed
\* array of k < n objects the first k records come from the model and the
\* last n-k are ERROR_BATCH_MISMATCH records, and of k > n objects the first
\* n are kept
C34_BatchReturnsOneRecordPerRow ==
    engine.pc = "extend" /\ engine.batch_size > 1 =>
        LET records == engine.batch_results.records
        IN  /\ ~engine.batch_results.is_none
            /\ Len(records) = engine.n
            /\ \A k \in 1..Len(records) : records[k].pos = k
            /\ engine.calls # <<>> /\ LastCall.kind = "batch" /\ LastCall.ok =>
                  \A k \in 1..Len(records) :
                      /\ k <= LastCall.len => records[k].source # "mismatch"
                      /\ k > LastCall.len =>
                            /\ records[k].source = "mismatch"
                            /\ records[k].first = "ERROR_BATCH_MISMATCH"
                            /\ records[k].second = "ERROR_BATCH_MISMATCH"

\* the calls made for the current group: for the whole group, for row r
BatchCalls == { k \in 1..Len(engine.calls) : engine.calls[k].kind = "batch" }

RowCalls(r) ==
    { k \in 1..Len(engine.calls) :
        engine.calls[k].kind = "row" /\ engine.calls[k].row = r }

\* C35: for a group handed to process_batch at most retries batch calls are
\* made; rows are processed one by one only after the last batch attempt
\* failed, with at most retries calls per row; no batch call follows a
\* per-row call; at most retries + n*retries calls are made for the group
C35_BatchCallsThenFallback ==
    engine.batch_size > 1 =>
        /\ Cardinality(BatchCalls) <= engine.retries
        /\ \A r \in 1..engine.n : Cardinality(RowCalls(r)) <= engine.retries
        /\ \A k \in BatchCalls, r \in 1..engine.n : \A m \in RowCalls(r) : k < m
        /\ (\E r \in 1..engine.n : RowCalls(r) # {}) =>
              /\ Cardinality(BatchCalls) = engine.retries
              /\ \A k \in BatchCalls : ~engine.calls[k].ok
        /\ Len(engine.calls) <= engine.retries + engine.n * engine.retries

\* a group of two rows for which every call failed, two tries each
C35_Witness ==
    /\ engine.pc = "extend" /\ engine.n = 2 /\ engine.retries = 2
    /\ Len(engine.calls) = engine.retries + engine.n * engine.retries

\* C37: after validate_processed_data, if the first configured output column
\* is 'N' every other configured output column is '-'
C37_NotApplicableCoercesOthers ==
    \A k \in 1..Len(engine.batch_results.records) :
        LET record == engine.batch_results.records[k]
        IN  record.source = "model" /\ record.first = "N" => record.second = "-"

\* ------------------------------------------ merge_checkpoints on its own
\* Worker.run is about to call merge_checkpoints for a job_id whose
\* checkpoint directory holds any of the parts 1, 2, WidePart - 1, WidePart:
\* a part is absent, unreadable, or holds the row of its number
MergeInit ==
    /\ input_file = <<>> /\ has_rowid = TRUE
    /\ parallelization = [enabled |-> FALSE, split_strategy |-> "auto",
                          workers |-> 1, manual_ranges |-> <<>>]
    /\ row_ranges = <<>> /\ plan_pc = "merge" /\ loaded = <<>>
    /\ program = "worker" /\ row_start = 0 /\ row_end = 0 /\ attempt = 1
    /\ pc = "merge" /\ df = <<>> /\ batch_size = 1 /\ checkpoint_interval = 1
    /\ results = <<>> /\ last_checkpoint_row = 0 /\ checkpoint_counter = 0
    /\ disk \in { [ p \in {1, 2, WidePart - 1, WidePart} |->
                       IF p \in S THEN File(<<[RowID |-> p, res |-> p]>>)
                       ELSE IF p \in U THEN File(<<>>) ELSE NoFile ] :
                   S \in SUBSET {1, 2, WidePart - 1, WidePart},
                   U \in SUBSET {1, 2, WidePart - 1, WidePart} }
    /\ submitted = <<>> /\ saves = <<>> /\ disk_at_start = disk
    /\ ever_saved = {} /\ output = NoFile
    /\ WorkerIdle
    /\ OrchIdle
    /\ ToolIdle

MergeSpec == MergeInit /\ [][Merge]_vars

\* ---------------------------------------- claims about merge_checkpoints
RECURSIVE PartsInNumberOrder(_, _)
\* the rows of the parts in S, by increasing part number
PartsInNumberOrder(d, S) ==
    IF S = {} THEN <<>>
    ELSE LET m == CHOOSE x \in S : \A y \in S : x <= y
         IN  d[m].rows \o PartsInNumberOrder(d, S \ {m})

\* C36: merge_checkpoints returns true only if output_path then holds the
\* rows of every part of the job_id, concatenated in increasing part-number
\* order; it returns false and writes nothing when the job_id has no parts
C36_MergeInPartNumberOrder ==
    [][ pc = "merge" /\ pc' = "done" =>
          /\ merge_succeeds(disk) =>
                /\ output'.exists
                /\ output'.rows = PartsInNumberOrder(disk, ExistingParts(disk))
          /\ ExistingParts(disk) = {} => ~merge_succeeds(disk) /\ output' = output ]_vars

\* ------------------------------------- claims about the supervision rounds
\* monitor_workers of process_file returned and no shutdown was requested
MonitorReturns == orch.pc = "monitor" /\ orch'.pc \in {"next", "retry_monitor"}

\* C38: when monitor_workers returns without a shutdown request, every worker
\* spawned for the current file is in state completed or failed; a worker
\* whose status file does not exist yet is not counted as finished
C38_MonitorReturnsWhenAllSpawnedDone ==
    [][ MonitorReturns =>
          \A w \in orch.workers :
             /\ status_dir[w].exists
             /\ status_dir[w].state \in {"completed", "failed"} ]_vars

\* the process spawned last for worker w
LatestAttempt(w) ==
    LET idx == { i \in 1..Len(processes) : processes[i].range.worker_id = w }
    IN  processes[CHOOSE i \in idx : \A j \in idx : j <= i]

\* the monitor_workers of retry_failed_workers returned and no shutdown was
\* requested
RetryMonitorReturns == orch.pc = "retry_monitor" /\ orch'.pc = "next"

\* C39: the supervision round after a Retry respawn classifies a respawned
\* worker by the terminal state its new attempt wrote: when the round ends,
\* the new attempt of every respawned worker has written completed or failed
\* and exited, so the status read is never the one the attempt before left
C39_RetryClassifiesNewAttempt ==
    [][ RetryMonitorReturns =>
          \A w \in orch.workers : LatestAttempt(w).pc = "exited" ]_vars

\* --------------------------- invocations on one run_id, with fair scheduling
\* every process that can take a step of its program eventually takes one:
\* the worker processes run their code, the orchestrator's loops poll again
\* after each sleep. Signals to the orchestrator, kills and exceptions are
\* events of the environment and need not happen.
LiveSpec ==
    /\ OrchSpec
    /\ WF_vars(\E i \in 1..Len(processes) :
                  W_init(i) \/ W_start(i) \/ W_batch(i) \/ W_save(i) \/ W_completed(i))
    /\ WF_vars(\/ \E present \in BOOLEAN : NextFile(present) /\ Room(MaxProcesses)
               \/ SpawnWorkers
               \/ \E choice \in {"R", "M", "S"} : FinishFile(choice) /\ Room(MaxProcesses)
               \/ RetryFinish(FALSE)
               \/ Finish)

\* ------------------------------------ claims about the end of supervision
\* the orchestrator is inside monitor_workers
Supervising == orch.pc \in {"monitor", "retry_monitor"}

\* every worker process spawned so far has exited or was killed
AllExited == \A i \in 1..Len(processes) : ~Live(processes[i])

\* C40: once every worker process spawned for the file has exited (normally,
\* by an exception, or by being killed), the supervision loop of
\* monitor_workers eventually terminates; a shutdown request ends it too
C40_SupervisionTerminates == (Supervising /\ AllExited) ~> ~Supervising

====
